---- MODULE Spec2Model ----
(***************************************************************************)
(* Helix virtual-memory emulator of src/coms3/franken.py:                  *)
(*   HelixCache          three tiers (L1 hot, L2 warm, L3 compressed)      *)
(*   HelixMemoryManager  budgeted allocator over the cache                 *)
(*   HelixFS             file cache over the allocator                     *)
(*   HelixTranslator     synthetic pointers and descriptors                *)
(* In the runs of one caller a call runs to completion before the next one *)
(* starts; in the runs of several threads a call is a list of steps, the   *)
(* taking and giving back of the three reentrant locks among them.         *)
(* Payloads are byte strings (sequences of byte values).  The tiers are    *)
(* OrderedDicts: sequences of blocks, oldest first.                        *)
(***************************************************************************)
EXTENDS Integers, Sequences, FiniteSets, TLC

VARIABLES
    cfg,              \* constructor arguments, in bytes: l1_max, l2_max, l3_max, max_virtual
    l1_cache,         \* HelixCache.l1_cache
    l2_cache,         \* HelixCache.l2_cache
    l3_cache,         \* HelixCache.l3_cache
    stats,            \* HelixCache.stats
    allocations,      \* HelixMemoryManager.allocations
    total_allocated,  \* HelixMemoryManager.total_allocated
    mstats,           \* HelixMemoryManager.stats
    now,              \* the clock: how often time.time() has been read
    ptr_to_key,       \* HelixTranslator.ptr_to_key
    key_to_ptr,       \* HelixTranslator.key_to_ptr
    next_fake_pointer,\* HelixTranslator.next_fake_pointer
    tstats,           \* HelixTranslator.stats
    fd_to_path,       \* HelixTranslator.fd_to_path
    path_to_fd,       \* HelixTranslator.path_to_fd
    next_fake_fd,     \* HelixTranslator.next_fake_fd
    file_cache,       \* HelixFS.file_cache
    fstats,           \* HelixFS.stats
    disk,             \* the files on disk: path -> content
    released,         \* the pointers and descriptors whose free / close returned true
    threads,          \* per thread: the steps left of its call, the value returned, blocks in transit
    locks,            \* HelixFS.lock, HelixMemoryManager.lock, HelixCache.lock: owner and depth
    control,          \* ControlSystem: its state and the content of its control file
    last              \* the call that completed last, with what it returned

\* the translator's own state
tvars == <<ptr_to_key, key_to_ptr, next_fake_pointer, tstats>>

\* the descriptor tables of the translator
dvars == <<fd_to_path, path_to_fd, next_fake_fd>>

\* the file cache and the disk under it
fvars == <<file_cache, fstats, disk>>

vars == <<cfg, l1_cache, l2_cache, l3_cache, stats, allocations,
          total_allocated, mstats, now, tvars, dvars, fvars, released, threads,
          locks, control, last>>

----------------------------------------------------------------------------
(* Bounds of the model *)

\* calls counted by the statistics (gets, allocations, deallocations) per run
MaxOps == 5

\* the same count in the runs of malloc and read alone
MaxWarmOps == 7

\* calls into the translator per run
MaxCalls == 5

----------------------------------------------------------------------------
(* Values *)

\* Optional[...] values: None is the empty sequence, a value v is <<v>>
None == <<>>
Some(v) == <<v>>

\* bytes(n): a zero-filled buffer
Zeros(n) == [i \in 1..n |-> 0]

IsZeros(d) == \A i \in 1..Len(d) : d[i] = 0

\* len(pickle.dumps(data)) for a bytes object shorter than 256 bytes
\* (protocol 4 or 5): PROTO 2, FRAME 9, SHORT_BINBYTES 2, the bytes,
\* MEMOIZE 1, STOP 1
PickleLen(d) == Len(d) + 15

\* len(zlib.compress(pickle.dumps(data), level=6)), as zlib 1.2.13 gives it:
\* a zero-filled buffer deflates to 18..21 bytes, the short buffers below
\* hold a run that deflate matches, any other buffer of at most 4 bytes is
\* stored as literals and grows by the 18 bytes of pickle and zlib framing
ZlibLen(d) ==
    CASE IsZeros(d) /\ Len(d) = 0 -> 18
      [] IsZeros(d) /\ Len(d) = 1 -> 19
      [] IsZeros(d) /\ Len(d) \in 2..7 -> 20
      [] IsZeros(d) /\ Len(d) \in 8..64 -> 21
      [] d \in {<<0, 0, 0, 88>>, <<0, 0, 0, 89>>, <<88, 0, 0, 0>>,
                <<89, 0, 0, 0>>, <<88, 88, 88, 88>>, <<89, 89, 89, 89>>} -> 21
      [] ~IsZeros(d) /\ Len(d) <= 4 -> Len(d) + 18

----------------------------------------------------------------------------
(* OrderedDict operations on a tier: a sequence of blocks with distinct keys *)

HasKey(tier, key) == \E i \in 1..Len(tier) : tier[i].key = key

IndexOf(tier, key) == CHOOSE i \in 1..Len(tier) : tier[i].key = key

Lookup(tier, key) == tier[IndexOf(tier, key)]

\* OrderedDict.pop(key, None) / del d[key]
Pop(tier, key) == SelectSeq(tier, LAMBDA b : b.key # key)

\* d[key] = block: a key already present keeps its position
DictSet(tier, key, block) ==
    IF HasKey(tier, key)
    THEN [tier EXCEPT ![IndexOf(tier, key)] = block]
    ELSE Append(tier, block)

\* block updated in place, then OrderedDict.move_to_end(key)
MoveToEnd(tier, key, block) == Append(Pop(tier, key), block)

Keys(tier) == {tier[i].key : i \in 1..Len(tier)}

----------------------------------------------------------------------------
(* CacheBlock *)

\* time.time() is a logical clock: every reading is later than the one before.
\* A block created or accessed at clock t carries last_access = t.
CacheBlock(key, data, tier, size, t) ==
    [key |-> key, data |-> data, tier |-> tier, size_bytes |-> size,
     access_count |-> 0, last_access |-> t, compressed |-> FALSE,
     cdata |-> None]

access(block, t) == [block EXCEPT !.access_count = @ + 1, !.last_access = t]

\* the state after one reading of the clock
Tick(h) == [h EXCEPT !.now = @ + 1]

\* compress() deflating one zero byte whatever the data
compress_one_zero(block) ==
    IF ~block.compressed
    THEN [block EXCEPT !.cdata = Some(Zeros(1)), !.compressed = TRUE]
    ELSE block

\* the block after compress(); cdata stands for zlib.compress(pickle.dumps(data))
compress(block) ==
    IF ~block.compressed
    THEN [block EXCEPT !.cdata = Some(block.data), !.compressed = TRUE]
    ELSE block

\* what compress() returns: max(0, saved)
compress_saved(block) ==
    IF ~block.compressed
    THEN LET saved == block.size_bytes - ZlibLen(block.data)
         IN IF saved > 0 THEN saved ELSE 0
    ELSE 0

\* decompress() leaving the block as it is
decompress_nothing(block) == block

\* pickle.loads(zlib.decompress(_compressed_data))
decompress(block) ==
    IF block.compressed /\ block.cdata # None
    THEN [block EXCEPT !.data = block.cdata[1], !.compressed = FALSE,
                       !.cdata = None]
    ELSE block

----------------------------------------------------------------------------
(* HelixCache.  h is the state of the system as a record; the cache uses  *)
(* its fields l1, l2, l3, stats and now; the allocator adds allocations,   *)
(* total_allocated and mstats; the translator adds its four fields.        *)

RECURSIVE SumSizes(_)

BlockSize(block) ==
    IF block.compressed /\ block.cdata # None
    THEN ZlibLen(block.cdata[1])
    ELSE block.size_bytes

SumSizes(tier) ==
    IF tier = <<>> THEN 0 ELSE BlockSize(Head(tier)) + SumSizes(Tail(tier))

get_tier_size(tier) == SumSizes(tier)

\* counting no miss of L2
BumpButL2Misses(h, counter) ==
    IF counter = "l2_misses" THEN h ELSE [h EXCEPT !.stats[counter] = @ + 1]

Bump(h, counter) == [h EXCEPT !.stats[counter] = @ + 1]

RECURSIVE make_room_l1(_, _), make_room_l2(_, _), make_room_l3(_, _)
RECURSIVE demote_to_l2(_, _, _), demote_to_l3(_, _, _)

make_room_l3(h, needed) ==
    IF get_tier_size(h.l3) + needed > cfg.l3_max /\ h.l3 # <<>>
    THEN make_room_l3(Bump([h EXCEPT !.l3 = Pop(@, Head(h.l3).key)], "evictions"),
                      needed)
    ELSE h

demote_to_l3(h, key, block) ==
    LET h1 == [h EXCEPT !.l2 = Pop(@, key)]
        b1 == compress(block)
        h2 == IF compress_saved(block) > 0 THEN Bump(h1, "compressions") ELSE h1
        size == IF b1.cdata # None THEN ZlibLen(b1.cdata[1]) ELSE b1.size_bytes
        h3 == make_room_l3(h2, size)
    IN Bump([h3 EXCEPT !.l3 = DictSet(@, key, [b1 EXCEPT !.tier = "L3_COMPRESSED"])],
            "demotions")

make_room_l2(h, needed) ==
    IF get_tier_size(h.l2) + needed > cfg.l2_max /\ h.l2 # <<>>
    THEN make_room_l2(demote_to_l3(h, Head(h.l2).key, Head(h.l2)), needed)
    ELSE h

demote_to_l2(h, key, block) ==
    LET h1 == [h EXCEPT !.l1 = Pop(@, key)]
        h2 == make_room_l2(h1, block.size_bytes)
    IN Bump([h2 EXCEPT !.l2 = DictSet(@, key, [block EXCEPT !.tier = "L2_WARM"])],
            "demotions")

\* _make_room_l1 whose loop is never entered
make_room_l1_skipped(h, needed) == h

make_room_l1(h, needed) ==
    IF get_tier_size(h.l1) + needed > cfg.l1_max /\ h.l1 # <<>>
    THEN make_room_l1(demote_to_l2(h, Head(h.l1).key, Head(h.l1)), needed)
    ELSE h

promote_to_l1(h, key, block) ==
    LET h1 == [h EXCEPT !.l2 = Pop(@, key)]
        h2 == make_room_l1(h1, block.size_bytes)
    IN Bump([h2 EXCEPT !.l1 = DictSet(@, key, [block EXCEPT !.tier = "L1_HOT"])],
            "promotions")

promote_to_l2(h, key, block) ==
    LET h1 == [h EXCEPT !.l3 = Pop(@, key)]
        h2 == make_room_l2(h1, block.size_bytes)
    IN Bump([h2 EXCEPT !.l2 = DictSet(@, key, [block EXCEPT !.tier = "L2_WARM"])],
            "promotions")

\* the comparison written >= 3 instead of > 3
L2PromoteFromThree == 3 - 1

\* access_count above which a hit in L2 promotes to L1
L2PromoteAbove == 3

\* the comparison written >= 2 instead of > 2
L3PromoteFromTwo == 2 - 1

\* access_count above which a hit in L3 promotes to L2
L3PromoteAbove == 2

\* HelixCache.get: [h |-> the state after the call, ret |-> what it returns]
get(h, key) ==
    IF HasKey(h.l1, key) THEN
        LET block == access(Lookup(h.l1, key), h.now)
            h1 == Tick(Bump(h, "l1_hits"))
        IN [h |-> [h1 EXCEPT !.l1 = MoveToEnd(@, key, block)],
            ret |-> Some(block.data)]
    ELSE IF HasKey(h.l2, key) THEN
        LET block == access(Lookup(h.l2, key), h.now)
            h1 == Tick(Bump(Bump(h, "l1_misses"), "l2_hits"))
        IN [h |-> IF block.access_count > L2PromoteAbove
                  THEN promote_to_l1(h1, key, block)
                  ELSE [h1 EXCEPT !.l2 = MoveToEnd(@, key, block)],
            ret |-> Some(block.data)]
    ELSE IF HasKey(h.l3, key) THEN
        LET block == decompress(access(Lookup(h.l3, key), h.now))
            h1 == Tick(Bump(Bump(Bump(h, "l1_misses"), "l2_misses"), "l3_hits"))
        IN [h |-> IF block.access_count > L3PromoteAbove
                  THEN promote_to_l2(h1, key, block)
                  ELSE [h1 EXCEPT !.l3 = MoveToEnd(@, key, block)],
            ret |-> Some(block.data)]
    ELSE [h |-> Bump(Bump(Bump(h, "l1_misses"), "l2_misses"), "l3_misses"),
          ret |-> None]

\* put keeping a block the key already has in L1 (setdefault)
put_keep_old(h, key, data, size) ==
    LET h1 == Tick([h EXCEPT !.l2 = Pop(@, key), !.l3 = Pop(@, key)])
        block == CacheBlock(key, data, "L1_HOT", size, h.now)
        h2 == make_room_l1(h1, size)
    IN IF HasKey(h2.l1, key) THEN h2 ELSE [h2 EXCEPT !.l1 = Append(@, block)]

\* HelixCache.put
put(h, key, data, size) ==
    LET h1 == Tick([h EXCEPT !.l2 = Pop(@, key), !.l3 = Pop(@, key)])
        block == CacheBlock(key, data, "L1_HOT", size, h.now)
        h2 == make_room_l1(h1, size)
    IN [h2 EXCEPT !.l1 = DictSet(@, key, block)]

----------------------------------------------------------------------------
(* HelixMemoryManager *)

\* dict without key
Without(f, key) == [x \in DOMAIN f \ {key} |-> f[x]]

\* malloc rejecting a request that exactly fills the budget
malloc_at_budget(h, key, data) ==
    LET size == PickleLen(data) IN
    IF h.total_allocated + size >= cfg.max_virtual
    THEN [h |-> h, ret |-> FALSE]
    ELSE LET h1 == put(h, key, data, size)
             total == h.total_allocated + size
         IN [h |-> [h1 EXCEPT !.allocations = (key :> size) @@ @,
                              !.total_allocated = total,
                              !.mstats.total_allocations = @ + 1,
                              !.mstats.virtual_memory_used = total],
             ret |-> TRUE]

\* malloc comparing the budget with what is allocated already
malloc_before_adding(h, key, data) ==
    LET size == PickleLen(data) IN
    IF h.total_allocated > cfg.max_virtual
    THEN [h |-> h, ret |-> FALSE]
    ELSE LET h1 == put(h, key, data, size)
             total == h.total_allocated + size
         IN [h |-> [h1 EXCEPT !.allocations = (key :> size) @@ @,
                              !.total_allocated = total,
                              !.mstats.total_allocations = @ + 1,
                              !.mstats.virtual_memory_used = total],
             ret |-> TRUE]

\* HelixMemoryManager.malloc
malloc(h, key, data) ==
    LET size == PickleLen(data) IN
    IF h.total_allocated + size > cfg.max_virtual
    THEN [h |-> h, ret |-> FALSE]
    ELSE LET h1 == put(h, key, data, size)
             total == h.total_allocated + size
         IN [h |-> [h1 EXCEPT !.allocations = (key :> size) @@ @,
                              !.total_allocated = total,
                              !.mstats.total_allocations = @ + 1,
                              !.mstats.virtual_memory_used = total],
             ret |-> TRUE]

\* free leaving the Compressed tier alone
free_skip_l3(h, key) ==
    IF key \notin DOMAIN h.allocations
    THEN [h |-> h, ret |-> FALSE]
    ELSE LET total == h.total_allocated - h.allocations[key]
         IN [h |-> [h EXCEPT !.total_allocated = total,
                             !.allocations = Without(@, key),
                             !.l1 = Pop(@, key),
                             !.l2 = Pop(@, key),
                             !.mstats.total_deallocations = @ + 1,
                             !.mstats.virtual_memory_used = total],
             ret |-> TRUE]

\* free emptying the Hot tier
free_clearing_hot(h, key) ==
    IF key \notin DOMAIN h.allocations
    THEN [h |-> h, ret |-> FALSE]
    ELSE LET total == h.total_allocated - h.allocations[key]
         IN [h |-> [h EXCEPT !.total_allocated = total,
                             !.allocations = Without(@, key),
                             !.l1 = <<>>,
                             !.l2 = Pop(@, key),
                             !.l3 = Pop(@, key),
                             !.mstats.total_deallocations = @ + 1,
                             !.mstats.virtual_memory_used = total],
             ret |-> TRUE]

\* HelixMemoryManager.free
free(h, key) ==
    IF key \notin DOMAIN h.allocations
    THEN [h |-> h, ret |-> FALSE]
    ELSE LET total == h.total_allocated - h.allocations[key]
         IN [h |-> [h EXCEPT !.total_allocated = total,
                             !.allocations = Without(@, key),
                             !.l1 = Pop(@, key),
                             !.l2 = Pop(@, key),
                             !.l3 = Pop(@, key),
                             !.mstats.total_deallocations = @ + 1,
                             !.mstats.virtual_memory_used = total],
             ret |-> TRUE]

\* HelixMemoryManager.read
read(h, key) == get(h, key)

\* write without the free
write_no_free(h, key, data) == malloc(h, key, data)

\* HelixMemoryManager.write
write(h, key, data) ==
    IF key \in DOMAIN h.allocations
    THEN malloc(free(h, key).h, key, data)
    ELSE malloc(h, key, data)

----------------------------------------------------------------------------
(* HelixFS *)

\* f"file:{filepath}"
FileKey(filepath) == <<"file", filepath>>

FBump(h, counter) == [h EXCEPT !.fstats[counter] = @ + 1]

\* what opening a file on disk can do: work, or raise
OpenOutcomes == {"ok", "raises"}

\* what a write through to disk can do: work, raise before the file is
\* touched, or raise after open(filepath, 'wb') has emptied the file
WriteOutcomes == {"ok", "raises", "truncates"}

\* HelixFS.read_file
read_file(h, filepath, outcome) ==
    LET cache_key == FileKey(filepath)
        from_disk(h1) ==
            IF filepath \notin DOMAIN h1.disk \/ outcome = "raises"
            THEN [h |-> h1, ret |-> None]
            ELSE [h |-> [malloc(FBump(h1, "disk_reads"), cache_key,
                                h1.disk[filepath]).h
                            EXCEPT !.file_cache = (filepath :> cache_key) @@ @],
                  ret |-> Some(h1.disk[filepath])]
        looked_up(r) ==
            IF r.ret # None
            THEN [h |-> FBump(r.h, "cache_hits"), ret |-> r.ret]
            ELSE from_disk(FBump(r.h, "cache_misses"))
    IN looked_up(read(FBump(h, "file_reads"), cache_key))

\* HelixFS.write_file
write_file(h, filepath, data, write_through, outcome) ==
    LET cache_key == FileKey(filepath)
        to_disk(h2) ==
            IF ~write_through \/ outcome = "raises" THEN h2
            ELSE IF outcome = "truncates"
                 THEN [h2 EXCEPT !.disk = (filepath :> <<>>) @@ @]
                 ELSE FBump([h2 EXCEPT !.disk = (filepath :> data) @@ @],
                            "disk_writes")
    IN to_disk([write(FBump(h, "file_writes"), cache_key, data).h
                   EXCEPT !.file_cache = (filepath :> cache_key) @@ @])

----------------------------------------------------------------------------
(* HelixTranslator *)

\* the first descriptor
FirstFakeFd == 1000

\* 0x10000000
FirstFakePointer == 268435456

\* 0x1000
PointerStride == 4096

\* f"mem_{next_fake_pointer:016x}_{size}"
MemKey(pointer, size) == <<"mem", pointer, size>>

TBump(h, counter) == [h EXCEPT !.tstats[counter] = @ + 1]

\* data[:size], the offset forgotten
SliceFromStart(data, offset, size) ==
    SubSeq(data, 1, IF size < Len(data) THEN size ELSE Len(data))

\* data[offset:offset+size]
Slice(data, offset, size) ==
    SubSeq(data, offset + 1,
           IF offset + size < Len(data) THEN offset + size ELSE Len(data))

\* buffer[offset:offset+len(data)] = data: the slice is clipped to the buffer
Splice(buffer, offset, data) ==
    LET start == IF offset < Len(buffer) THEN offset ELSE Len(buffer)
        end == offset + Len(data)
        stop == IF end < Len(buffer) THEN end ELSE Len(buffer)
    IN SubSeq(buffer, 1, start) \o data \o SubSeq(buffer, stop + 1, Len(buffer))

\* translate_malloc that issues the same pointer again
translate_malloc_same_pointer(h, size) ==
    LET h0 == TBump(TBump(h, "ingress_calls"), "malloc_intercepts")
        helix_key == MemKey(h0.next_fake_pointer, size)
        r == malloc(h0, helix_key, Zeros(size))
    IN IF ~r.ret THEN [h |-> r.h, ret |-> 0]
       ELSE LET fake_ptr == r.h.next_fake_pointer
                entry == [app_pointer |-> fake_ptr, helix_key |-> helix_key,
                          size |-> size, created_at |-> r.h.now,
                          last_access |-> r.h.now + 1, access_count |-> 0]
            IN [h |-> TBump([r.h EXCEPT
                                !.now = @ + 2,
                                !.ptr_to_key = (fake_ptr :> entry) @@ @,
                                !.key_to_ptr = (helix_key :> fake_ptr) @@ @],
                            "egress_calls"),
                ret |-> fake_ptr]

\* translate_malloc that issues a pointer whatever the allocator answered
translate_malloc_unchecked(h, size) ==
    LET h0 == TBump(TBump(h, "ingress_calls"), "malloc_intercepts")
        helix_key == MemKey(h0.next_fake_pointer, size)
        r == malloc(h0, helix_key, Zeros(size))
        fake_ptr == r.h.next_fake_pointer
        entry == [app_pointer |-> fake_ptr, helix_key |-> helix_key,
                  size |-> size, created_at |-> r.h.now,
                  last_access |-> r.h.now + 1, access_count |-> 0]
    IN [h |-> TBump([r.h EXCEPT
                        !.next_fake_pointer = @ + PointerStride,
                        !.now = @ + 2,
                        !.ptr_to_key = (fake_ptr :> entry) @@ @,
                        !.key_to_ptr = (helix_key :> fake_ptr) @@ @],
                    "egress_calls"),
        ret |-> fake_ptr]

\* HelixTranslator.translate_malloc
translate_malloc(h, size) ==
    LET h0 == TBump(TBump(h, "ingress_calls"), "malloc_intercepts")
        helix_key == MemKey(h0.next_fake_pointer, size)
        r == malloc(h0, helix_key, Zeros(size))
    IN IF ~r.ret THEN [h |-> r.h, ret |-> 0]
       ELSE LET fake_ptr == r.h.next_fake_pointer
                entry == [app_pointer |-> fake_ptr, helix_key |-> helix_key,
                          size |-> size, created_at |-> r.h.now,
                          last_access |-> r.h.now + 1, access_count |-> 0]
            IN [h |-> TBump([r.h EXCEPT
                                !.next_fake_pointer = @ + PointerStride,
                                !.now = @ + 2,
                                !.ptr_to_key = (fake_ptr :> entry) @@ @,
                                !.key_to_ptr = (helix_key :> fake_ptr) @@ @],
                            "egress_calls"),
                ret |-> fake_ptr]

\* HelixTranslator.translate_free
translate_free(h, pointer) ==
    LET h0 == TBump(TBump(h, "ingress_calls"), "free_intercepts") IN
    IF pointer \notin DOMAIN h0.ptr_to_key THEN [h |-> h0, ret |-> FALSE]
    ELSE LET entry == h0.ptr_to_key[pointer]
             h1 == free(h0, entry.helix_key).h
         IN [h |-> TBump([h1 EXCEPT
                             !.ptr_to_key = Without(@, pointer),
                             !.key_to_ptr = Without(@, entry.helix_key)],
                         "egress_calls"),
             ret |-> TRUE]

\* TranslationEntry.access on the entry of pointer
entry_access(h, pointer) ==
    [h EXCEPT !.ptr_to_key[pointer].last_access = h.now,
              !.ptr_to_key[pointer].access_count = @ + 1,
              !.now = @ + 1]

\* HelixTranslator.translate_read
translate_read(h, pointer, size, offset) ==
    LET h0 == TBump(TBump(h, "ingress_calls"), "read_intercepts") IN
    IF pointer \notin DOMAIN h0.ptr_to_key THEN [h |-> h0, ret |-> None]
    ELSE LET h1 == entry_access(h0, pointer)
             r == read(h1, h1.ptr_to_key[pointer].helix_key)
         IN IF r.ret = None THEN [h |-> r.h, ret |-> None]
            ELSE [h |-> TBump(r.h, "egress_calls"),
                  ret |-> Some(Slice(r.ret[1], offset, size))]

\* HelixTranslator.translate_write
translate_write(h, pointer, data, offset) ==
    LET h0 == TBump(TBump(h, "ingress_calls"), "write_intercepts") IN
    IF pointer \notin DOMAIN h0.ptr_to_key THEN [h |-> h0, ret |-> FALSE]
    ELSE LET h1 == entry_access(h0, pointer)
             entry == h1.ptr_to_key[pointer]
             r == read(h1, entry.helix_key)
             buffer == IF r.ret # None /\ r.ret[1] # <<>>
                       THEN r.ret[1]
                       ELSE Zeros(entry.size)
             w == write(r.h, entry.helix_key, Splice(buffer, offset, data))
         IN [h |-> TBump(w.h, "egress_calls"), ret |-> w.ret]

\* translate_open that hands out the same descriptor again
translate_open_same_fd(h, filepath) ==
    LET fake_fd == h.next_fake_fd IN
    [h |-> TBump([TBump(h, "ingress_calls") EXCEPT
                     !.fd_to_path = (fake_fd :> filepath) @@ @,
                     !.path_to_fd = (filepath :> fake_fd) @@ @],
                 "egress_calls"),
     ret |-> fake_fd, raised |-> FALSE]

\* HelixTranslator.translate_open
translate_open(h, filepath) ==
    LET fake_fd == h.next_fake_fd IN
    [h |-> TBump([TBump(h, "ingress_calls") EXCEPT
                     !.next_fake_fd = @ + 1,
                     !.fd_to_path = (fake_fd :> filepath) @@ @,
                     !.path_to_fd = (filepath :> fake_fd) @@ @],
                 "egress_calls"),
     ret |-> fake_fd, raised |-> FALSE]

\* HelixTranslator.translate_read_file
translate_read_file(h, fd, size, outcome) ==
    LET h0 == TBump(h, "ingress_calls")
        returned(r) ==
            [h |-> TBump(r.h, "egress_calls"),
             ret |-> IF r.ret # None /\ r.ret[1] # <<>>
                     THEN Some(Slice(r.ret[1], 0, size)) ELSE None,
             raised |-> FALSE]
    IN IF fd \notin DOMAIN h0.fd_to_path
       THEN [h |-> h0, ret |-> None, raised |-> FALSE]
       ELSE returned(read_file(h0, h0.fd_to_path[fd], outcome))

\* HelixTranslator.translate_write_file
translate_write_file(h, fd, data, outcome) ==
    LET h0 == TBump(h, "ingress_calls") IN
    IF fd \notin DOMAIN h0.fd_to_path
    THEN [h |-> h0, ret |-> FALSE, raised |-> FALSE]
    ELSE [h |-> TBump(write_file(h0, h0.fd_to_path[fd], data, TRUE, outcome),
                      "egress_calls"),
          ret |-> TRUE, raised |-> FALSE]

\* HelixTranslator.translate_close; del self.path_to_fd[filepath] raises
\* KeyError when the path is not in the table, after fd_to_path has lost fd
translate_close(h, fd) ==
    LET h0 == TBump(h, "ingress_calls") IN
    IF fd \notin DOMAIN h0.fd_to_path
    THEN [h |-> h0, ret |-> FALSE, raised |-> FALSE]
    ELSE LET filepath == h0.fd_to_path[fd]
             h1 == [h0 EXCEPT !.fd_to_path = Without(@, fd)]
         IN IF filepath \notin DOMAIN h1.path_to_fd
            THEN [h |-> h1, ret |-> FALSE, raised |-> TRUE]
            ELSE [h |-> TBump([h1 EXCEPT !.path_to_fd = Without(@, filepath)],
                              "egress_calls"),
                  ret |-> TRUE, raised |-> FALSE]

----------------------------------------------------------------------------
(* Calls of several threads: each method is the list of its steps, and the *)
(* with-blocks of its code are the acquire and release steps around them   *)

Threads == {1, 2}

\* HelixFS.lock, HelixMemoryManager.lock, HelixCache.lock
LockNames == {"fs", "alloc", "cache"}

\* HelixCache.get: with self.lock
cache_get_unlocked(key) == << <<"cache", "get", key, <<>>, 0>> >>

cache_get_script(key) ==
    << <<"acquire", "cache">>, <<"cache", "get", key, <<>>, 0>>,
       <<"release", "cache">> >>

\* HelixCache.put calling back into the allocator under its lock
cache_put_calling_back(key, data, size) ==
    << <<"acquire", "cache">>, <<"cache", "put", key, data, size>>,
       <<"acquire", "alloc">>, <<"release", "alloc">>,
       <<"release", "cache">> >>

\* HelixCache.put: with self.lock
cache_put_script(key, data, size) ==
    << <<"acquire", "cache">>, <<"cache", "put", key, data, size>>,
       <<"release", "cache">> >>

\* HelixMemoryManager.malloc: with self.lock, then the budget test
malloc_script(key, data) ==
    << <<"acquire", "alloc">>, <<"malloc_check", key, data>> >>

\* HelixMemoryManager.free
free_script(key) ==
    << <<"acquire", "alloc">>, <<"free_body", key>>, <<"release", "alloc">> >>

\* HelixMemoryManager.read
read_script(key) == cache_get_script(key)

\* HelixMemoryManager.write: with self.lock, then the test of the key
write_script(key, data) ==
    << <<"acquire", "alloc">>, <<"write_check", key, data>> >>

\* HelixFS.read_file
read_file_script(filepath, outcome) ==
    << <<"acquire", "fs">>, <<"fs_read_begin", filepath, outcome>> >>

\* HelixFS.write_file without with self.lock
write_file_unlocked(filepath, data, outcome) ==
    << <<"fs_write_begin", filepath, data, outcome>> >>

\* HelixFS.write_file
write_file_script(filepath, data, outcome) ==
    << <<"acquire", "fs">>, <<"fs_write_begin", filepath, data, outcome>> >>

\* the tiers and what get and put change with them
CachePart(h) ==
    [l1 |-> h.l1, l2 |-> h.l2, l3 |-> h.l3, stats |-> h.stats, now |-> h.now]

WithCachePart(h, part) ==
    [h EXCEPT !.l1 = part.l1, !.l2 = part.l2, !.l3 = part.l3,
              !.stats = part.stats, !.now = part.now]

\* tier without the blocks that are not in it after the call
Staying(tier, after) ==
    LET Stays(block) == HasKey(after, block.key) IN SelectSeq(tier, Stays)

\* the cache while the blocks a call moves have left their tier and have
\* not arrived in the next
InTransit(h, after) ==
    [h EXCEPT !.l1 = Staying(h.l1, after.l1),
              !.l2 = Staying(h.l2, after.l2),
              !.l3 = Staying(h.l3, after.l3)]

\* what a call gave back to its thread: nothing yet, a miss or the bytes
\* read, or a success flag
NoReturn == [kind |-> "none", bytes |-> <<>>, ok |-> FALSE]

Bytes(ret) ==
    IF ret = None THEN [kind |-> "miss", bytes |-> <<>>, ok |-> FALSE]
    ELSE [kind |-> "bytes", bytes |-> ret[1], ok |-> TRUE]

Flag(ret) == [kind |-> "flag", bytes |-> <<>>, ok |-> ret]

\* thread t goes on with todo, having got ret
Goes(h, t, todo, ret) ==
    [h EXCEPT !.threads[t].todo = todo, !.threads[t].ret = ret]

\* with self.lock, entered: the lock is free or the thread's own
acquire(h, t, lock, rest) ==
    [h EXCEPT !.locks[lock] = [owner |-> t, count |-> @.count + 1],
              !.threads[t].todo = rest]

\* with self.lock, left
release(h, t, lock, rest) ==
    [h EXCEPT !.locks[lock] = IF @.count = 1
                              THEN [owner |-> 0, count |-> 0]
                              ELSE [owner |-> @.owner, count |-> @.count - 1],
              !.threads[t].todo = rest]

\* the body of HelixCache.get or put up to the point where the blocks it
\* moves have left their tiers; a call that moves none is complete
cache_moving(h, t, r, between, rest) ==
    IF between.l1 = h.l1 /\ between.l2 = h.l2 /\ between.l3 = h.l3
    THEN Goes(r.h, t, rest, Bytes(r.ret))
    ELSE [between EXCEPT
             !.threads[t].todo = << <<"arrive">> >> \o rest,
             !.threads[t].transit =
                 Some([part |-> CachePart(r.h), ret |-> Bytes(r.ret)])]

\* what the body of HelixCache.get or put does when nothing interrupts it
cache_call(h, op, key, data, size) ==
    IF op = "get" THEN get(h, key)
    ELSE [h |-> put(h, key, data, size), ret |-> None]

cache_left(h, t, r, rest) == cache_moving(h, t, r, InTransit(h, r.h), rest)

cache_body(h, t, op, key, data, size, rest) ==
    cache_left(h, t, cache_call(h, op, key, data, size), rest)

\* the rest of the body: the blocks arrive in their tiers
arrive(h, t, rest) ==
    [WithCachePart(h, h.threads[t].transit[1].part) EXCEPT
        !.threads[t].todo = rest,
        !.threads[t].ret = h.threads[t].transit[1].ret,
        !.threads[t].transit = None]

\* HelixMemoryManager.malloc: the budget test, then cache.put
malloc_check(h, t, key, data, rest) ==
    IF h.total_allocated + PickleLen(data) > cfg.max_virtual
    THEN Goes(h, t, << <<"release", "alloc">> >> \o rest, Flag(FALSE))
    ELSE Goes(h, t,
              cache_put_script(key, data, PickleLen(data))
                  \o << <<"malloc_record", key, PickleLen(data)>>,
                        <<"release", "alloc">> >> \o rest,
              h.threads[t].ret)

\* HelixMemoryManager.malloc after cache.put
malloc_record(h, t, key, size, rest) ==
    Goes([h EXCEPT !.allocations = (key :> size) @@ @,
                   !.total_allocated = @ + size,
                   !.mstats.total_allocations = @ + 1,
                   !.mstats.virtual_memory_used = h.total_allocated + size],
         t, rest, Flag(TRUE))

\* HelixMemoryManager.free inside its lock
free_done(r, t, rest) == Goes(r.h, t, rest, Flag(r.ret))

free_body(h, t, key, rest) == free_done(free(h, key), t, rest)

\* HelixMemoryManager.write: free if the key is allocated, then malloc
write_check(h, t, key, data, rest) ==
    Goes(h, t,
         (IF key \in DOMAIN h.allocations THEN free_script(key) ELSE <<>>)
             \o malloc_script(key, data) \o << <<"release", "alloc">> >>
             \o rest,
         h.threads[t].ret)

\* HelixFS.read_file: the count, then memory.read
fs_read_begin(h, t, filepath, outcome, rest) ==
    Goes(FBump(h, "file_reads"), t,
         read_script(FileKey(filepath))
             \o << <<"fs_read_after", filepath, outcome>> >> \o rest,
         h.threads[t].ret)

\* HelixFS.read_file after memory.read: a hit returns, a miss looks on disk
\* and caches what it finds
fs_read_after(h, t, filepath, outcome, rest) ==
    IF h.threads[t].ret.kind = "bytes"
    THEN Goes(FBump(h, "cache_hits"), t,
              << <<"release", "fs">> >> \o rest, h.threads[t].ret)
    ELSE IF filepath \notin DOMAIN h.disk \/ outcome = "raises"
         THEN Goes(FBump(h, "cache_misses"), t,
                   << <<"release", "fs">> >> \o rest, Bytes(None))
         ELSE Goes(FBump(FBump(h, "cache_misses"), "disk_reads"), t,
                   malloc_script(FileKey(filepath), h.disk[filepath])
                       \o << <<"fs_read_cached", filepath, h.disk[filepath]>>,
                             <<"release", "fs">> >> \o rest,
                   h.threads[t].ret)

\* HelixFS.read_file after memory.malloc
fs_read_cached(h, t, filepath, data, rest) ==
    Goes([h EXCEPT !.file_cache = (filepath :> FileKey(filepath)) @@ @],
         t, rest, Bytes(Some(data)))

\* HelixFS.write_file: the count, then memory.write
fs_write_begin(h, t, filepath, data, outcome, rest) ==
    Goes(FBump(h, "file_writes"), t,
         write_script(FileKey(filepath), data)
             \o << <<"fs_write_disk", filepath, data, outcome>>,
                   <<"release", "fs">> >> \o rest,
         h.threads[t].ret)

\* HelixFS.write_file after memory.write: the table, then the write through
fs_write_disk(h, t, filepath, data, outcome, rest) ==
    LET tabled == [h EXCEPT !.file_cache = (filepath :> FileKey(filepath)) @@ @]
    IN Goes(IF outcome = "raises" THEN tabled
            ELSE IF outcome = "truncates"
                 THEN [tabled EXCEPT !.disk = (filepath :> <<>>) @@ @]
                 ELSE FBump([tabled EXCEPT !.disk = (filepath :> data) @@ @],
                            "disk_writes"),
            t, rest, NoReturn)

\* HelixTranslator.translate_malloc, which takes no lock of its own
translate_malloc_script(size) == << <<"tm_begin", size>> >>

\* the pointer a translate_malloc gave back to its thread, 0 for none
Pointer(pointer) ==
    [kind |-> "pointer", bytes |-> <<pointer>>, ok |-> pointer # 0]

\* translate_malloc: the counts, the key made from next_fake_pointer, then
\* memory.malloc
tm_begin(h, t, size, rest) ==
    Goes(TBump(TBump(h, "ingress_calls"), "malloc_intercepts"), t,
         malloc_script(MemKey(h.next_fake_pointer, size), Zeros(size))
             \o << <<"tm_after", MemKey(h.next_fake_pointer, size), size>> >>
             \o rest,
         h.threads[t].ret)

\* translate_malloc after memory.malloc: return 0, or
\* fake_ptr = self.next_fake_pointer
tm_after(h, t, helix_key, size, rest) ==
    IF ~h.threads[t].ret.ok THEN Goes(h, t, rest, Pointer(0))
    ELSE Goes(h, t,
              << <<"tm_advance", h.next_fake_pointer, helix_key, size>> >>
                  \o rest,
              h.threads[t].ret)

\* self.next_fake_pointer += 0x1000
tm_advance(h, t, fake_ptr, helix_key, size, rest) ==
    Goes([h EXCEPT !.next_fake_pointer = @ + PointerStride], t,
         << <<"tm_record", fake_ptr, helix_key, size>> >> \o rest,
         h.threads[t].ret)

\* translate_malloc: the entry, the two tables, the count and the return
tm_record(h, t, fake_ptr, helix_key, size, rest) ==
    LET entry == [app_pointer |-> fake_ptr, helix_key |-> helix_key,
                  size |-> size, created_at |-> h.now,
                  last_access |-> h.now + 1, access_count |-> 0]
    IN Goes(TBump([h EXCEPT !.now = @ + 2,
                            !.ptr_to_key = (fake_ptr :> entry) @@ @,
                            !.key_to_ptr = (helix_key :> fake_ptr) @@ @],
                  "egress_calls"),
            t, rest, Pointer(fake_ptr))

\* HelixTranslator.translate_write, which takes no lock of its own
translate_write_script(pointer, data, offset) ==
    << <<"tw_begin", pointer, data, offset>> >>

\* translate_write: the counts, the test of the pointer, entry.access(), then
\* memory.read
tw_begin(h, t, pointer, data, offset, rest) ==
    LET h0 == TBump(TBump(h, "ingress_calls"), "write_intercepts") IN
    IF pointer \notin DOMAIN h0.ptr_to_key THEN Goes(h0, t, rest, Flag(FALSE))
    ELSE Goes(entry_access(h0, pointer), t,
              read_script(h0.ptr_to_key[pointer].helix_key)
                  \o << <<"tw_after", h0.ptr_to_key[pointer], data, offset>> >>
                  \o rest,
              h.threads[t].ret)

\* translate_write after memory.read: the buffer, the splice, then
\* memory.write
tw_after(h, t, entry, data, offset, rest) ==
    LET existing == h.threads[t].ret
        buffer == IF existing.kind = "bytes" /\ existing.bytes # <<>>
                  THEN existing.bytes
                  ELSE Zeros(entry.size)
    IN Goes(h, t,
            write_script(entry.helix_key, Splice(buffer, offset, data))
                \o << <<"tw_done">> >> \o rest,
            h.threads[t].ret)

\* translate_write after memory.write: the count and the return
tw_done(h, t, rest) == Goes(TBump(h, "egress_calls"), t, rest, h.threads[t].ret)

\* the next step of thread t
step(h, t, instr, rest) ==
    CASE instr[1] = "acquire" -> acquire(h, t, instr[2], rest)
      [] instr[1] = "release" -> release(h, t, instr[2], rest)
      [] instr[1] = "cache" ->
             cache_body(h, t, instr[2], instr[3], instr[4], instr[5], rest)
      [] instr[1] = "arrive" -> arrive(h, t, rest)
      [] instr[1] = "malloc_check" -> malloc_check(h, t, instr[2], instr[3], rest)
      [] instr[1] = "malloc_record" ->
             malloc_record(h, t, instr[2], instr[3], rest)
      [] instr[1] = "free_body" -> free_body(h, t, instr[2], rest)
      [] instr[1] = "write_check" -> write_check(h, t, instr[2], instr[3], rest)
      [] instr[1] = "fs_read_begin" ->
             fs_read_begin(h, t, instr[2], instr[3], rest)
      [] instr[1] = "fs_read_after" ->
             fs_read_after(h, t, instr[2], instr[3], rest)
      [] instr[1] = "fs_read_cached" ->
             fs_read_cached(h, t, instr[2], instr[3], rest)
      [] instr[1] = "fs_write_begin" ->
             fs_write_begin(h, t, instr[2], instr[3], instr[4], rest)
      [] instr[1] = "fs_write_disk" ->
             fs_write_disk(h, t, instr[2], instr[3], instr[4], rest)
      [] instr[1] = "tm_begin" -> tm_begin(h, t, instr[2], rest)
      [] instr[1] = "tm_after" -> tm_after(h, t, instr[2], instr[3], rest)
      [] instr[1] = "tm_advance" ->
             tm_advance(h, t, instr[2], instr[3], instr[4], rest)
      [] instr[1] = "tm_record" ->
             tm_record(h, t, instr[2], instr[3], instr[4], rest)
      [] instr[1] = "tw_begin" ->
             tw_begin(h, t, instr[2], instr[3], instr[4], rest)
      [] instr[1] = "tw_after" ->
             tw_after(h, t, instr[2], instr[3], instr[4], rest)
      [] instr[1] = "tw_done" -> tw_done(h, t, rest)

----------------------------------------------------------------------------
(* ControlSystem of the swap manager (src/paging.py).  c is the object: its *)
(* state dictionary and the content of the control file, None while there *)
(* is no file.                                                             *)

\* ControlSystem(control_file) where no control file exists
ControlSystem ==
    [state |-> [enabled |-> TRUE, emergency_stop |-> FALSE, ai_mode |-> TRUE,
                last_command |-> "None", last_command_time |-> None],
     file |-> None]

SaveOutcomes == {"ok", "raises"}

\* _cmd: state.update(kw), the time of the command, then _save, which writes
\* the file or logs the error
cmd(c, kw, t, outcome) ==
    LET updated == [last_command_time |-> Some(t)] @@ kw @@ c.state
    IN [state |-> updated,
        file |-> IF outcome = "ok" THEN Some(updated) ELSE c.file]

enable(c, t, outcome) ==
    cmd(c, [enabled |-> TRUE, emergency_stop |-> FALSE,
            last_command |-> "enable"], t, outcome)

\* disable() clearing the emergency flag as well
disable_clearing_stop(c, t, outcome) ==
    cmd(c, [enabled |-> FALSE, emergency_stop |-> FALSE,
            last_command |-> "disable"], t, outcome)

disable(c, t, outcome) ==
    cmd(c, [enabled |-> FALSE, last_command |-> "disable"], t, outcome)

emergency_stop(c, t, outcome) ==
    cmd(c, [enabled |-> FALSE, emergency_stop |-> TRUE,
            last_command |-> "emergency_stop"], t, outcome)

set_ai_mode(c, on, t, outcome) ==
    cmd(c, [ai_mode |-> on,
            last_command |-> IF on THEN "ai_mode_True" ELSE "ai_mode_False"],
        t, outcome)

is_enabled(c) == c.state.enabled /\ ~c.state.emergency_stop

----------------------------------------------------------------------------
(* The state machine *)

\* the tier get() would find key in
TierOf(h, key) ==
    IF HasKey(h.l1, key) THEN "L1_HOT"
    ELSE IF HasKey(h.l2, key) THEN "L2_WARM"
    ELSE IF HasKey(h.l3, key) THEN "L3_COMPRESSED"
    ELSE "none"

\* the record of a completed call: its name and arguments, what it returned,
\* and the tier that held the key when it was made
Call(op, key, data, ret) ==
    [op |-> op, key |-> key, data |-> data, ret |-> ret,
     was |-> TierOf([l1 |-> l1_cache, l2 |-> l2_cache, l3 |-> l3_cache], key)]

\* the variables as one record
Sys ==
    [l1 |-> l1_cache, l2 |-> l2_cache, l3 |-> l3_cache, stats |-> stats,
     allocations |-> allocations, total_allocated |-> total_allocated,
     mstats |-> mstats, now |-> now, ptr_to_key |-> ptr_to_key,
     key_to_ptr |-> key_to_ptr, next_fake_pointer |-> next_fake_pointer,
     tstats |-> tstats, fd_to_path |-> fd_to_path, path_to_fd |-> path_to_fd,
     next_fake_fd |-> next_fake_fd, file_cache |-> file_cache,
     fstats |-> fstats, disk |-> disk, released |-> released,
     threads |-> threads, locks |-> locks, control |-> control]

\* the variables take the fields of h
Becomes(h) ==
    /\ l1_cache' = h.l1
    /\ l2_cache' = h.l2
    /\ l3_cache' = h.l3
    /\ stats' = h.stats
    /\ allocations' = h.allocations
    /\ total_allocated' = h.total_allocated
    /\ mstats' = h.mstats
    /\ now' = h.now
    /\ ptr_to_key' = h.ptr_to_key
    /\ key_to_ptr' = h.key_to_ptr
    /\ next_fake_pointer' = h.next_fake_pointer
    /\ tstats' = h.tstats
    /\ fd_to_path' = h.fd_to_path
    /\ path_to_fd' = h.path_to_fd
    /\ next_fake_fd' = h.next_fake_fd
    /\ file_cache' = h.file_cache
    /\ fstats' = h.fstats
    /\ disk' = h.disk
    /\ released' = h.released
    /\ threads' = h.threads
    /\ locks' = h.locks
    /\ control' = h.control

\* keys of the callers of the allocator
UserKeys == {<<"usr", "a">>, <<"usr", "b">>, <<"usr", "c">>}

\* payloads: bytes(1) pickles to 16 bytes and deflates to 19,
\* bytes(20) pickles to 35 bytes and deflates to 21
UserData == {Zeros(1), Zeros(20)}

\* HelixCache(l1, l2, l3) and HelixMemoryManager(cache, max_virtual), in bytes
Configs ==
    { [l1_max |-> 56, l2_max |-> 40, l3_max |-> 40, max_virtual |-> 70],
      [l1_max |-> 16, l2_max |-> 16, l3_max |-> 20, max_virtual |-> 100] }

\* calls the statistics have counted
Work ==
    stats.l1_hits + stats.l1_misses + mstats.total_allocations
        + mstats.total_deallocations

\* the state after construction
Constructed ==
    /\ l1_cache = <<>>
    /\ l2_cache = <<>>
    /\ l3_cache = <<>>
    /\ stats = [l1_hits |-> 0, l1_misses |-> 0, l2_hits |-> 0, l2_misses |-> 0,
                l3_hits |-> 0, l3_misses |-> 0, promotions |-> 0,
                demotions |-> 0, evictions |-> 0, compressions |-> 0]
    /\ allocations = << >>
    /\ total_allocated = 0
    /\ mstats = [total_allocations |-> 0, total_deallocations |-> 0,
                 virtual_memory_used |-> 0]
    /\ now = 0
    /\ ptr_to_key = << >>
    /\ key_to_ptr = << >>
    /\ next_fake_pointer = FirstFakePointer
    /\ tstats = [ingress_calls |-> 0, egress_calls |-> 0,
                 malloc_intercepts |-> 0, free_intercepts |-> 0,
                 read_intercepts |-> 0, write_intercepts |-> 0]
    /\ fd_to_path = << >>
    /\ path_to_fd = << >>
    /\ next_fake_fd = FirstFakeFd
    /\ file_cache = << >>
    /\ fstats = [file_reads |-> 0, file_writes |-> 0, cache_hits |-> 0,
                 cache_misses |-> 0, disk_reads |-> 0, disk_writes |-> 0]
    /\ released = {}
    /\ threads = [t \in Threads |->
                      [todo |-> <<>>, ret |-> NoReturn, transit |-> None,
                       calls |-> 0]]
    /\ locks = [lock \in LockNames |-> [owner |-> 0, count |-> 0]]
    /\ control = ControlSystem
    /\ last = [op |-> "init", key |-> <<>>, data |-> <<>>, ret |-> FALSE,
               was |-> "none"]

\* no file is on disk
NoFiles == << >>

Init == cfg \in Configs /\ Constructed /\ disk = NoFiles

Malloc(key, data) ==
    /\ LET r == malloc(Sys, key, data) IN
        /\ Becomes(r.h)
        /\ last' = Call("malloc", key, data, r.ret)
    /\ UNCHANGED cfg

Free(key) ==
    /\ LET r == free(Sys, key) IN
        /\ Becomes(r.h)
        /\ last' = Call("free", key, <<>>, r.ret)
    /\ UNCHANGED cfg

Read(key) ==
    /\ LET r == read(Sys, key) IN
        /\ Becomes(r.h)
        /\ last' = Call("read", key, <<>>, r.ret)
    /\ UNCHANGED cfg

Write(key, data) ==
    /\ LET r == write(Sys, key, data) IN
        /\ Becomes(r.h)
        /\ last' = Call("write", key, data, r.ret)
    /\ UNCHANGED cfg

\* the record of a completed translator call
TCall(op, pointer, data, size, offset, ret) ==
    LET key == IF pointer \in DOMAIN ptr_to_key
               THEN ptr_to_key[pointer].helix_key
               ELSE IF op = "translate_malloc"
                    THEN MemKey(next_fake_pointer, size) ELSE <<>>
    IN [op |-> op, key |-> key, data |-> data, ret |-> ret,
        was |-> TierOf([l1 |-> l1_cache, l2 |-> l2_cache, l3 |-> l3_cache], key),
        pointer |-> pointer, size |-> size, offset |-> offset,
        raised |-> FALSE]

TranslateMalloc(size) ==
    /\ LET r == translate_malloc(Sys, size) IN
        /\ Becomes(r.h)
        /\ last' = TCall("translate_malloc", r.ret, <<>>, size, 0, r.ret)
    /\ UNCHANGED cfg

TranslateFree(pointer) ==
    /\ LET r == translate_free(Sys, pointer) IN
        /\ Becomes([r.h EXCEPT !.released =
                                   IF r.ret THEN @ \cup {pointer} ELSE @])
        /\ last' = TCall("translate_free", pointer, <<>>, 0, 0, r.ret)
    /\ UNCHANGED cfg

TranslateRead(pointer, size, offset) ==
    /\ LET r == translate_read(Sys, pointer, size, offset) IN
        /\ Becomes(r.h)
        /\ last' = TCall("translate_read", pointer, <<>>, size, offset, r.ret)
    /\ UNCHANGED cfg

TranslateWrite(pointer, data, offset) ==
    /\ LET r == translate_write(Sys, pointer, data, offset) IN
        /\ Becomes(r.h)
        /\ last' = TCall("translate_write", pointer, data, 0, offset, r.ret)
    /\ UNCHANGED cfg

\* the record of a completed descriptor call
FCall(op, fd, filepath, data, size, r) ==
    LET key == IF filepath = "" THEN <<>> ELSE FileKey(filepath) IN
    [op |-> op, key |-> key, data |-> data, ret |-> r.ret,
     was |-> TierOf([l1 |-> l1_cache, l2 |-> l2_cache, l3 |-> l3_cache], key),
     fd |-> fd, filepath |-> filepath, size |-> size, raised |-> r.raised]

\* the path of an open descriptor, "" for any other number
PathOf(fd) == IF fd \in DOMAIN fd_to_path THEN fd_to_path[fd] ELSE ""

\* a descriptor call has returned (or raised) r
Returned(r, op, fd, filepath, data, size) ==
    /\ Becomes([r.h EXCEPT !.released =
                   IF op = "translate_close" /\ r.ret = TRUE
                   THEN @ \cup {fd} ELSE @])
    /\ last' = FCall(op, fd, filepath, data, size, r)
    /\ UNCHANGED cfg

TranslateOpen(filepath) ==
    Returned(translate_open(Sys, filepath), "translate_open", next_fake_fd,
             filepath, <<>>, 0)

TranslateClose(fd) ==
    Returned(translate_close(Sys, fd), "translate_close", fd, PathOf(fd),
             <<>>, 0)

TranslateReadFile(fd, size, outcome) ==
    Returned(translate_read_file(Sys, fd, size, outcome),
             "translate_read_file", fd, PathOf(fd), <<>>, size)

TranslateWriteFile(fd, data, outcome) ==
    Returned(translate_write_file(Sys, fd, data, outcome),
             "translate_write_file", fd, PathOf(fd), data, 0)

\* the record of a completed HelixFS call
FsCall(op, filepath, data, write_through, ret) ==
    [op |-> op, key |-> FileKey(filepath), data |-> data, ret |-> ret,
     was |-> TierOf([l1 |-> l1_cache, l2 |-> l2_cache, l3 |-> l3_cache],
                    FileKey(filepath)),
     filepath |-> filepath, write_through |-> write_through]

\* a HelixFS call has returned r
FsReturned(r, op, filepath, data, write_through) ==
    /\ Becomes(r.h)
    /\ last' = FsCall(op, filepath, data, write_through, r.ret)
    /\ UNCHANGED cfg

ReadFile(filepath, outcome) ==
    FsReturned(read_file(Sys, filepath, outcome), "read_file", filepath,
               <<>>, FALSE)

WriteFile(filepath, data, write_through, outcome) ==
    FsReturned([h |-> write_file(Sys, filepath, data, write_through, outcome),
                ret |-> None],
               "write_file", filepath, data, write_through)

\* thread t can take its next step: it has one, and a lock it asks for is
\* free or its own
CanStep(t) ==
    /\ threads[t].todo # <<>>
    /\ Head(threads[t].todo)[1] = "acquire" =>
           locks[Head(threads[t].todo)[2]].owner \in {0, t}

\* thread t takes the next step of its call
ThreadStep(t) ==
    /\ CanStep(t)
    /\ Becomes(step(Sys, t, Head(threads[t].todo), Tail(threads[t].todo)))
    /\ UNCHANGED <<cfg, last>>

\* calls the threads have made
ThreadCalls == threads[1].calls + threads[2].calls

\* thread t, between two calls, makes the call that is the steps of script
ThreadCall(t, script) ==
    /\ threads[t].todo = <<>>
    /\ threads' = [threads EXCEPT ![t].todo = script, ![t].calls = @ + 1,
                                  ![t].ret = NoReturn]
    /\ UNCHANGED <<cfg, l1_cache, l2_cache, l3_cache, stats, allocations,
                   total_allocated, mstats, now, tvars, dvars, fvars,
                   released, locks, control, last>>

\* the allocator's interface, called in any order
Next ==
    \/ \E key \in UserKeys, data \in UserData :
           Work < MaxOps /\ Malloc(key, data)
    \/ \E key \in UserKeys : Work < MaxOps /\ Free(key)
    \/ \E key \in UserKeys : Work < MaxOps /\ Read(key)
    \/ \E key \in UserKeys, data \in UserData :
           Work < MaxOps /\ Write(key, data)

Spec == Init /\ [][Next]_vars

\* mallocs of one payload and reads of two keys: the blocks gather accesses
\* in Hot and in Warm
NextWarm ==
    \/ \E key \in {<<"usr", "a">>, <<"usr", "b">>} :
           Work < MaxWarmOps /\ Malloc(key, Zeros(1))
    \/ \E key \in {<<"usr", "a">>, <<"usr", "b">>} :
           Work < MaxWarmOps /\ Read(key)

SpecWarm == Init /\ [][NextWarm]_vars

\* every block the translator runs allocate (at most 4 bytes, 19 pickled,
\* 22 deflated) fits each tier, and each tier holds one block
TranslatorConfig ==
    [l1_max |-> 19, l2_max |-> 19, l3_max |-> 22, max_virtual |-> 66]

\* the pointers a caller may pass: 0, those issued so far and the next one
PointerArgs ==
    {0} \cup {FirstFakePointer + i * PointerStride :
                 i \in 0..((next_fake_pointer - FirstFakePointer) \div PointerStride)}

InitTranslator == cfg = TranslatorConfig /\ Constructed /\ disk = NoFiles

\* the translator's pointer interface, called in any order
NextTranslator ==
    \/ \E size \in {1, 2} :
           tstats.ingress_calls < MaxCalls /\ TranslateMalloc(size)
    \/ \E pointer \in PointerArgs :
           tstats.ingress_calls < MaxCalls /\ TranslateFree(pointer)
    \/ \E pointer \in PointerArgs, offset \in {0, 1} :
           tstats.ingress_calls < MaxCalls /\ TranslateRead(pointer, 2, offset)
    \/ \E pointer \in PointerArgs, offset \in {0, 2} :
           tstats.ingress_calls < MaxCalls
               /\ TranslateWrite(pointer, <<88, 89>>, offset)

SpecT == InitTranslator /\ [][NextTranslator]_vars

\* calls into the translator per run of pointer and descriptor calls
MaxHandleCalls == 5

Paths == {"p", "q"}

\* the descriptors a caller may pass: 0, those issued so far and the next one
FdArgs == {0} \cup (FirstFakeFd..next_fake_fd)

\* the file p may be on disk before the run
InitHandles ==
    /\ cfg = TranslatorConfig
    /\ Constructed
    /\ disk \in {NoFiles, "p" :> <<88, 89>>}

\* the translator's pointer and descriptor interface, called in any order
NextHandles ==
    \/ tstats.ingress_calls < MaxHandleCalls /\ TranslateMalloc(1)
    \/ \E pointer \in PointerArgs :
           tstats.ingress_calls < MaxHandleCalls /\ TranslateFree(pointer)
    \/ \E pointer \in PointerArgs :
           tstats.ingress_calls < MaxHandleCalls
               /\ TranslateRead(pointer, 2, 0)
    \/ \E pointer \in PointerArgs :
           tstats.ingress_calls < MaxHandleCalls
               /\ TranslateWrite(pointer, <<88, 89>>, 0)
    \/ \E filepath \in Paths :
           tstats.ingress_calls < MaxHandleCalls /\ TranslateOpen(filepath)
    \/ \E fd \in FdArgs :
           tstats.ingress_calls < MaxHandleCalls /\ TranslateClose(fd)
    \/ \E fd \in FdArgs, outcome \in OpenOutcomes :
           tstats.ingress_calls < MaxHandleCalls
               /\ TranslateReadFile(fd, 1, outcome)
    \/ \E fd \in FdArgs, outcome \in WriteOutcomes :
           tstats.ingress_calls < MaxHandleCalls
               /\ TranslateWriteFile(fd, <<89>>, outcome)

SpecHandles == InitHandles /\ [][NextHandles]_vars

\* each tier holds one block, the budget two
FsConfig == [l1_max |-> 19, l2_max |-> 19, l3_max |-> 22, max_virtual |-> 33]

\* the keys of the callers of the allocator next to the file cache
FsKeys == {<<"usr", "a">>, FileKey("p")}

FsData == {<<88>>, <<88, 89>>}

\* calls the statistics of the cache, the allocator and the file cache counted
FsWork == Work + fstats.file_reads + fstats.file_writes

InitFs ==
    /\ cfg = FsConfig
    /\ Constructed
    /\ disk \in {NoFiles, "p" :> <<88, 89>>}

\* the allocator and the file cache, called in any order
NextFs ==
    \/ \E key \in FsKeys, data \in FsData :
           FsWork < MaxOps /\ Malloc(key, data)
    \/ \E key \in FsKeys : FsWork < MaxOps /\ Free(key)
    \/ \E key \in FsKeys, data \in FsData :
           FsWork < MaxOps /\ Write(key, data)
    \/ \E filepath \in Paths, outcome \in OpenOutcomes :
           FsWork < MaxOps /\ ReadFile(filepath, outcome)
    \/ \E filepath \in Paths, data \in FsData, write_through \in BOOLEAN,
          outcome \in WriteOutcomes :
           FsWork < MaxOps
               /\ WriteFile(filepath, data, write_through, outcome)

SpecFs == InitFs /\ [][NextFs]_vars

\* calls of the threads per run, into all three layers
MaxThreadCalls == 2

\* each tier holds one block, the budget two
LocksConfig == [l1_max |-> 16, l2_max |-> 16, l3_max |-> 20, max_virtual |-> 32]

\* the file p is on disk
InitLocks ==
    /\ cfg = LocksConfig
    /\ Constructed
    /\ disk = "p" :> <<88>>

\* two threads call into the cache, the allocator and the file cache, each
\* the next call when its last one has returned
NextLocks ==
    \/ \E t \in Threads :
           ThreadCalls < MaxThreadCalls
               /\ ThreadCall(t, cache_get_script(FileKey("p")))
    \/ \E t \in Threads :
           ThreadCalls < MaxThreadCalls
               /\ ThreadCall(t, cache_put_script(FileKey("p"), <<88>>, 16))
    \/ \E t \in Threads :
           ThreadCalls < MaxThreadCalls
               /\ ThreadCall(t, malloc_script(FileKey("p"), <<88>>))
    \/ \E t \in Threads :
           ThreadCalls < MaxThreadCalls
               /\ ThreadCall(t, free_script(FileKey("p")))
    \/ \E t \in Threads :
           ThreadCalls < MaxThreadCalls
               /\ ThreadCall(t, write_script(FileKey("p"), <<88>>))
    \/ \E t \in Threads, outcome \in OpenOutcomes :
           ThreadCalls < MaxThreadCalls
               /\ ThreadCall(t, read_file_script("p", outcome))
    \/ \E t \in Threads :
           ThreadCalls < MaxThreadCalls
               /\ ThreadCall(t, write_file_script("p", <<88>>, "ok"))
    \/ \E t \in Threads : ThreadStep(t)

\* a thread that can take a step takes one in the end
SpecLocks ==
    /\ InitLocks
    /\ [][NextLocks]_vars
    /\ \A t \in Threads : WF_vars(ThreadStep(t))

\* calls of the threads per run, into the cache
MaxMoveCalls == 7

MoveKeys == {<<"usr", "a">>, <<"usr", "b">>}

InitMoves == cfg = LocksConfig /\ Constructed /\ disk = NoFiles

\* two threads call get and put
NextMoves ==
    \/ \E t \in Threads, key \in MoveKeys :
           ThreadCalls < MaxMoveCalls /\ ThreadCall(t, cache_get_script(key))
    \/ \E t \in Threads, key \in MoveKeys :
           ThreadCalls < MaxMoveCalls
               /\ ThreadCall(t, cache_put_script(key, <<88>>, 16))
    \/ \E t \in Threads : ThreadStep(t)

SpecMoves == InitMoves /\ [][NextMoves]_vars

\* calls of the threads per run, one thread allocating and reading, the
\* other freeing
MaxRaceCalls == 7

RaceKey == <<"usr", "a">>

InitRace == cfg = LocksConfig /\ Constructed /\ disk = NoFiles

\* thread 1 calls malloc and read, thread 2 calls free on the key thread 1
\* reads
NextRace ==
    \/ \E key \in MoveKeys :
           ThreadCalls < MaxRaceCalls
               /\ ThreadCall(1, malloc_script(key, <<88>>))
    \/ ThreadCalls < MaxRaceCalls /\ ThreadCall(1, read_script(RaceKey))
    \/ ThreadCalls < MaxRaceCalls /\ ThreadCall(2, free_script(RaceKey))
    \/ \E t \in Threads : ThreadStep(t)

SpecRace == InitRace /\ [][NextRace]_vars

\* calls of the threads per run, into the translator
MaxPointerCalls == 3

InitPointers == cfg = TranslatorConfig /\ Constructed /\ disk = NoFiles

\* two threads call translate_malloc
NextPointers ==
    \/ \E t \in Threads, size \in {1, 2} :
           ThreadCalls < MaxPointerCalls
               /\ ThreadCall(t, translate_malloc_script(size))
    \/ \E t \in Threads : ThreadStep(t)

SpecPointers == InitPointers /\ [][NextPointers]_vars

\* calls of the threads per run, into the translator's buffers
MaxWriteCalls == 3

InitWrites == cfg = TranslatorConfig /\ Constructed /\ disk = NoFiles

\* thread 1 allocates a buffer of two bytes and writes X at offset 0 of the
\* first pointer, thread 2 writes Y at its offset 1
NextWrites ==
    \/ ThreadCalls < MaxWriteCalls /\ ThreadCall(1, translate_malloc_script(2))
    \/ ThreadCalls < MaxWriteCalls
           /\ ThreadCall(1, translate_write_script(FirstFakePointer, <<88>>, 0))
    \/ ThreadCalls < MaxWriteCalls
           /\ ThreadCall(2, translate_write_script(FirstFakePointer, <<89>>, 1))
    \/ \E t \in Threads : ThreadStep(t)

SpecWrites == InitWrites /\ [][NextWrites]_vars

\* calls of the threads per run, into the file cache
MaxFileCalls == 3

InitFiles == cfg = LocksConfig /\ Constructed /\ disk = NoFiles

\* thread 1 writes X to the file p, thread 2 writes Y to it, and both read
\* it; the storage works
NextFiles ==
    \/ ThreadCalls < MaxFileCalls
           /\ ThreadCall(1, write_file_script("p", <<88>>, "ok"))
    \/ ThreadCalls < MaxFileCalls
           /\ ThreadCall(2, write_file_script("p", <<89>>, "ok"))
    \/ \E t \in Threads :
           ThreadCalls < MaxFileCalls /\ ThreadCall(t, read_file_script("p", "ok"))
    \/ \E t \in Threads : ThreadStep(t)

SpecFiles == InitFiles /\ [][NextFiles]_vars

\* calls per run, into the translator's reads
MaxReadCalls == 4

\* sizes and offsets of a read, within and beyond the buffers
ReadArgs == 0..3

InitReads == cfg = TranslatorConfig /\ Constructed /\ disk = NoFiles

\* buffers of one and two bytes, XY written at their start, and reads of any
\* range
NextReads ==
    \/ \E size \in {1, 2} :
           tstats.ingress_calls < MaxReadCalls /\ TranslateMalloc(size)
    \/ \E pointer \in PointerArgs :
           tstats.ingress_calls < MaxReadCalls
               /\ TranslateWrite(pointer, <<88, 89>>, 0)
    \/ \E pointer \in PointerArgs, size \in ReadArgs, offset \in ReadArgs :
           tstats.ingress_calls < MaxReadCalls
               /\ TranslateRead(pointer, size, offset)

SpecReads == InitReads /\ [][NextReads]_vars

\* commands per run, to the control system
MaxCommands == 4

\* what the commands leave alone
hvars == <<cfg, l1_cache, l2_cache, l3_cache, stats, allocations,
           total_allocated, mstats, tvars, dvars, fvars, released, threads,
           locks>>

\* the record of a completed call of the control system
ControlCall(op, ret) ==
    [op |-> op, key |-> <<>>, data |-> <<>>, ret |-> ret, was |-> "none"]

\* a command: the object after it, one reading of the clock
Commanded(op, c) ==
    /\ now < MaxCommands
    /\ control' = c
    /\ now' = now + 1
    /\ last' = ControlCall(op, FALSE)
    /\ UNCHANGED hvars

Enable(outcome) == Commanded("enable", enable(control, now, outcome))

Disable(outcome) == Commanded("disable", disable(control, now, outcome))

EmergencyStop(outcome) ==
    Commanded("emergency_stop", emergency_stop(control, now, outcome))

SetAiMode(on, outcome) ==
    Commanded("set_ai_mode", set_ai_mode(control, on, now, outcome))

\* is_enabled(), as the monitoring loop calls it before each cycle
IsEnabled ==
    /\ last' = ControlCall("is_enabled", is_enabled(control))
    /\ UNCHANGED <<hvars, control, now>>

InitControl == cfg = LocksConfig /\ Constructed /\ disk = NoFiles

NextControl ==
    \/ \E outcome \in SaveOutcomes : Enable(outcome)
    \/ \E outcome \in SaveOutcomes : Disable(outcome)
    \/ \E outcome \in SaveOutcomes : EmergencyStop(outcome)
    \/ \E on \in BOOLEAN, outcome \in SaveOutcomes : SetAiMode(on, outcome)
    \/ IsEnabled

SpecControl == InitControl /\ [][NextControl]_vars

\* Hot and Warm of 64 bytes, Compressed and the budget of 1 MB
ScenarioConfig ==
    [l1_max |-> 64, l2_max |-> 64, l3_max |-> 1048576, max_virtual |-> 1048576]

ScenarioKeys ==
    {<<"usr", "a">>, <<"usr", "b">>, <<"usr", "c">>, <<"usr", "d">>,
     <<"usr", "e">>}

InitScenario == cfg = ScenarioConfig /\ Constructed /\ disk = NoFiles

\* mallocs of blocks of 20 bytes (bytes(5), pickled) and reads
NextScenario ==
    \/ \E key \in ScenarioKeys : Work < MaxOps /\ Malloc(key, Zeros(5))
    \/ \E key \in ScenarioKeys : Work < MaxOps /\ Read(key)

SpecScenario == InitScenario /\ [][NextScenario]_vars

\* tiers that each hold every block: a 16-byte and 35-byte blocks in tiers of
\* 35, 35 and 40 bytes, under a budget that rejects nothing
TiersConfig ==
    [l1_max |-> 35, l2_max |-> 35, l3_max |-> 40, max_virtual |-> 1048576]

TierKeys == {<<"usr", "a">>, <<"usr", "b">>, <<"usr", "c">>}

\* the payload stored under a key: bytes(1) under a, bytes(20) under the others
PayloadOf(key) == IF key = <<"usr", "a">> THEN Zeros(1) ELSE Zeros(20)

MaxTierOps == 7

InitTiers == cfg = TiersConfig /\ Constructed /\ disk = NoFiles

\* puts (through malloc) and gets (through read)
NextTiers ==
    \/ \E key \in TierKeys : Work < MaxTierOps /\ Malloc(key, PayloadOf(key))
    \/ \E key \in TierKeys : Work < MaxTierOps /\ Read(key)

SpecTiers == InitTiers /\ [][NextTiers]_vars

----------------------------------------------------------------------------
(* Properties of the cache and the allocator *)

Tiers == <<l1_cache, l2_cache, l3_cache>>

Resident(key) ==
    HasKey(l1_cache, key) \/ HasKey(l2_cache, key) \/ HasKey(l3_cache, key)

\* C1: after every completed operation each of the three tiers has effective
\* occupied size (compressed length of a compressed block, size_bytes of any
\* other) at most the tier's capacity.
TierOccupancy ==
    /\ get_tier_size(l1_cache) <= cfg.l1_max
    /\ get_tier_size(l2_cache) <= cfg.l2_max
    /\ get_tier_size(l3_cache) <= cfg.l3_max

\* C2: in every reachable state a key is held by at most one of the tiers.
SingleTierResidency ==
    \A key \in Keys(l1_cache) \cup Keys(l2_cache) \cup Keys(l3_cache) :
        Cardinality({i \in 1..3 : HasKey(Tiers[i], key)}) <= 1

\* C3: a malloc with total_allocated + size above the budget returns false
\* and leaves total_allocated, the allocation table and the three tiers as
\* they were; a malloc with total_allocated + size up to the budget,
\* the budget itself included, is accepted.
BudgetEnforcement ==
    [][last'.op = "malloc" =>
          IF total_allocated + PickleLen(last'.data) > cfg.max_virtual
          THEN /\ last'.ret = FALSE
               /\ UNCHANGED <<total_allocated, allocations, l1_cache,
                              l2_cache, l3_cache>>
          ELSE /\ last'.ret = TRUE
               /\ total_allocated' = total_allocated + PickleLen(last'.data)]_vars

\* a malloc is rejected when an earlier one has filled the budget exactly
BudgetWitness ==
    /\ last.op = "malloc"
    /\ last.ret = FALSE
    /\ total_allocated = cfg.max_virtual

\* C4: after free(key) returns true the key is in no tier and not in the
\* allocation table, an immediate read(key) misses, and total_allocated has
\* gone down by the size recorded for the key; free of a key with no
\* allocation record returns false and changes nothing.
FreeCompleteness ==
    [][last'.op = "free" =>
          IF last'.key \in DOMAIN allocations
          THEN /\ last'.ret = TRUE
               /\ TierOf(Sys', last'.key) = "none"
               /\ last'.key \notin DOMAIN allocations'
               /\ read(Sys', last'.key).ret = None
               /\ total_allocated' = total_allocated - allocations[last'.key]
          ELSE /\ last'.ret = FALSE
               /\ UNCHANGED <<cfg, l1_cache, l2_cache, l3_cache, stats,
                              allocations, total_allocated, mstats, now>>]_vars

\* a block that had been demoted to the Compressed tier was freed while other
\* blocks are resident
FreeWitness ==
    /\ last.op = "free"
    /\ last.ret = TRUE
    /\ last.was = "L3_COMPRESSED"
    /\ l1_cache # <<>>
    /\ total_allocated > 0

\* C5: a successful malloc(key, data) with size at most the Hot capacity,
\* immediately followed by read(key), returns data, whatever the tiers held.
RoundTrip ==
    (last.op = "malloc" /\ last.ret = TRUE
        /\ PickleLen(last.data) <= cfg.l1_max)
    => read(Sys, last.key).ret = Some(last.data)

\* a malloc of a key whose earlier block, with other data, was in Hot, with
\* blocks in the other two tiers
RoundTripWitness ==
    /\ last.op = "malloc"
    /\ last.ret = TRUE
    /\ PickleLen(last.data) <= cfg.l1_max
    /\ last.was = "L1_HOT"
    /\ l2_cache # <<>>
    /\ l3_cache # <<>>

\* what C6 says of the state after write(key, data) when it holds there
WrittenAndHot ==
    /\ read(Sys, last.key).ret = Some(last.data)
    /\ HasKey(l1_cache, last.key)
    /\ ~HasKey(l2_cache, last.key)
    /\ ~HasKey(l3_cache, last.key)
    /\ Lookup(l1_cache, last.key).access_count = 0
    /\ Lookup(l1_cache, last.key).tier = "L1_HOT"

\* C6 as stated: after any write(key, newData), read(key) returns newData
\* and the block is in Hot only, with its access history reset.
WriteSemanticsAnyWrite == last.op = "write" => WrittenAndHot

\* C6: after a write(key, newData) that returns true, read(key) returns
\* newData and the block is in Hot only, with its access history reset,
\* whichever tier held the key before.
WriteSemantics == (last.op = "write" /\ last.ret = TRUE) => WrittenAndHot

\* a write that returned true to a key that was in the Compressed tier
WriteWitness ==
    /\ last.op = "write"
    /\ last.ret = TRUE
    /\ last.was = "L3_COMPRESSED"

\* a read that hit a block in Warm, with the block as it was before the hit
WarmHit == last'.op = "read" /\ last'.was = "L2_WARM"

BlockBefore == Lookup(l2_cache, last'.key)

Promoted ==
    /\ HasKey(l1_cache', last'.key)
    /\ ~HasKey(l2_cache', last'.key)
    /\ Lookup(l1_cache', last'.key).tier = "L1_HOT"

\* the hit counted the access and moved the block to the recent end of Warm
RefreshedInWarm ==
    /\ l2_cache' = MoveToEnd(l2_cache, last'.key,
                             [BlockBefore EXCEPT !.access_count = @ + 1,
                                                 !.last_access = now])
    /\ UNCHANGED <<l1_cache, l3_cache>>

\* C7 as stated: a Warm block with access_count = 3 does not promote on its
\* next hit and one with access_count = 4 does; a hit that does not promote
\* only refreshes the block's recency within Warm.
PromotionBoundaryAsStated ==
    [][WarmHit =>
          /\ BlockBefore.access_count = 3 => RefreshedInWarm
          /\ BlockBefore.access_count = 4 => Promoted]_vars

\* C7: the hit increments access_count before comparing it: a Warm block
\* with access_count = 2 (3 after the hit) does not promote on its next hit,
\* and one with access_count = 3 (4 after the hit) or more does (strict > 3 on
\* the count after the hit); a hit that does not promote only refreshes the
\* block's recency within Warm.
PromotionBoundary ==
    [][WarmHit =>
          /\ BlockBefore.access_count <= 2 => RefreshedInWarm
          /\ BlockBefore.access_count >= 3 => Promoted]_vars

\* a block hit in Warm with access_count = 3 before the hit is now in Hot
PromotionWitness ==
    /\ last.op = "read"
    /\ last.was = "L2_WARM"
    /\ HasKey(l1_cache, last.key)
    /\ Lookup(l1_cache, last.key).access_count = 4

\* a malloc that was accepted, and so called put
PutStep == last'.op = "malloc" /\ last'.ret = TRUE

\* the keys whose blocks the put moved out of Hot
Victims ==
    {key \in Keys(l1_cache) :
        IF key = last'.key
        THEN HasKey(l2_cache', key) \/ HasKey(l3_cache', key)
        ELSE ~HasKey(l1_cache', key)}

LastVictim ==
    CHOOSE v \in Victims : \A w \in Victims :
        Lookup(l1_cache, w).last_access <= Lookup(l1_cache, v).last_access

\* the victims were touched before every block that stayed, the demotion
\* before the last was needed, and the victims are below Hot
LruDemotion ==
    /\ \A v \in Victims, r \in Keys(l1_cache) \ Victims :
           Lookup(l1_cache, v).last_access < Lookup(l1_cache, r).last_access
    /\ Victims # {} =>
           get_tier_size(SelectSeq(l1_cache,
                   LAMBDA b : b.key \notin Victims \ {LastVictim}))
               + PickleLen(last'.data) > cfg.l1_max
    /\ get_tier_size(l1_cache) + PickleLen(last'.data) <= cfg.l1_max
           => Victims = {}
    /\ \A v \in Victims : HasKey(l2_cache', v) \/ HasKey(l3_cache', v)

\* n mallocs of n different keys and no other call so far
OnlyMallocs(n) ==
    /\ mstats.total_allocations = n
    /\ Cardinality(DOMAIN allocations) = n
    /\ mstats.total_deallocations = 0
    /\ stats.l1_hits + stats.l1_misses = 0

\* Hot = 64: three blocks of 20 bytes stay in Hot, the fourth malloc demotes
\* the first of them, and only it, to Warm
FourthDemotesFirst ==
    cfg.l1_max = 64 =>
        /\ \A n \in 0..3 : OnlyMallocs(n) => Len(l1_cache) = n /\ l2_cache = <<>>
        /\ OnlyMallocs(4) =>
               /\ Len(l1_cache) = 3
               /\ Len(l2_cache) = 1
               /\ l2_cache[1].last_access = 0
               /\ l3_cache = <<>>

\* C8: a put that finds Hot occupied + s above the capacity demotes blocks
\* from Hot in least-recently-touched-first order (a touch is a put or a get
\* hit) and stops as soon as occupied + s fits, and demotes nothing when the
\* block fits; with Hot = 64 and 20-byte blocks the first three stay in Hot
\* and the fourth malloc demotes exactly the least recently touched to Warm.
LruDemotionOnInsert ==
    /\ []FourthDemotesFirst
    /\ [][PutStep => LruDemotion]_vars

\* the blocks of Hot after a put, without the block put
OthersInHot ==
    LET Other(block) == block.key # last'.key IN SelectSeq(l1_cache', Other)

\* _make_room_l1 stopped for one of its two reasons: the block fits next to
\* what is left in Hot, or nothing is left
HotMadeRoom ==
    \/ get_tier_size(OthersInHot) + PickleLen(last'.data) <= cfg.l1_max
    \/ OthersInHot = <<>>

\* C19: put, and every promotion or demotion it triggers, terminates for
\* every block size, also a size above the capacity of one or all tiers: a
\* call demotes a block at most once from Hot and once from Warm and evicts
\* it at most once, and the make-room loop of a put ends with room made or
\* the tier empty.
BoundedMakeRoom ==
    [][/\ stats'.demotions - stats.demotions
              <= 2 * Len(l1_cache) + Len(l2_cache)
       /\ stats'.evictions - stats.evictions
              <= Len(l1_cache) + Len(l2_cache) + Len(l3_cache)
       /\ (last'.op \in {"malloc", "write"} /\ last'.ret = TRUE) =>
              HotMadeRoom]_vars

\* a block above the capacity of every tier was put, and the cascade has
\* gone down to an eviction
MakeRoomWitness ==
    /\ last.op = "malloc"
    /\ last.ret = TRUE
    /\ PickleLen(last.data) > cfg.l1_max
    /\ PickleLen(last.data) > cfg.l2_max
    /\ ZlibLen(last.data) > cfg.l3_max
    /\ Len(l1_cache) = 1
    /\ stats.evictions >= 1

----------------------------------------------------------------------------
(* Properties of the translator *)

\* C9: in every reachable state every key of the allocation table is
\* resident in some tier of the cache, evictions from the Compressed tier
\* included.
AllocationsResident == \A key \in DOMAIN allocations : Resident(key)

\* C10: no two active pointers map to the same cache key, and ptr_to_key and
\* key_to_ptr are inverse to each other.
PointerUniqueness ==
    /\ \A p, q \in DOMAIN ptr_to_key :
           ptr_to_key[p].helix_key = ptr_to_key[q].helix_key => p = q
    /\ \A p \in DOMAIN ptr_to_key :
           /\ ptr_to_key[p].helix_key \in DOMAIN key_to_ptr
           /\ key_to_ptr[ptr_to_key[p].helix_key] = p
    /\ \A key \in DOMAIN key_to_ptr :
           /\ key_to_ptr[key] \in DOMAIN ptr_to_key
           /\ ptr_to_key[key_to_ptr[key]].helix_key = key

\* two pointers are active after a pointer was freed and a buffer written
PointerWitness ==
    /\ Cardinality(DOMAIN ptr_to_key) >= 2
    /\ tstats.free_intercepts >= 1
    /\ last.op = "translate_write"
    /\ last.ret = TRUE

\* C11: no two simultaneously open descriptors map to the same path, and
\* path_to_fd is the inverse of fd_to_path, also when a path is opened
\* several times.
DescriptorUniqueness ==
    /\ \A fd, other \in DOMAIN fd_to_path :
           fd_to_path[fd] = fd_to_path[other] => fd = other
    /\ \A fd \in DOMAIN fd_to_path :
           /\ fd_to_path[fd] \in DOMAIN path_to_fd
           /\ path_to_fd[fd_to_path[fd]] = fd
    /\ \A filepath \in DOMAIN path_to_fd :
           /\ path_to_fd[filepath] \in DOMAIN fd_to_path
           /\ fd_to_path[path_to_fd[filepath]] = filepath

PointerCalls ==
    {"translate_malloc", "translate_free", "translate_read", "translate_write"}

DescriptorCalls ==
    {"translate_open", "translate_close", "translate_read_file",
     "translate_write_file"}

\* C12: translate_close(fd) returns true when fd is open and false
\* otherwise, and no call on a pointer or descriptor, known or unknown, lets
\* an exception escape to the caller.
CloseNeverThrows ==
    /\ last.op \in PointerCalls \cup DescriptorCalls => ~last.raised
    /\ last.op = "translate_close" =>
           (last.ret = TRUE <=> last.filepath # "")

\* the identifier a completed call was made on, 0 for a malloc or an open
Target(call) ==
    IF call.op \in {"translate_free", "translate_read", "translate_write"}
    THEN call.pointer
    ELSE IF call.op \in {"translate_close", "translate_read_file",
                         "translate_write_file"}
         THEN call.fd ELSE 0

\* the call returned failure: false, or a miss
Failed(call) ==
    /\ ~call.raised
    /\ IF call.op \in {"translate_read", "translate_read_file"}
       THEN call.ret = None ELSE call.ret = FALSE

\* C13: once translate_free(pointer) or translate_close(descriptor) has
\* returned true, every later call on that identifier returns false or a miss
\* and leaves the allocator, the cache and the handle tables unchanged, and
\* no later malloc or open returns the identifier again.
ReleasedStayReleased ==
    [][\A id \in released :
          /\ id \notin DOMAIN ptr_to_key'
          /\ id \notin DOMAIN fd_to_path'
          /\ last'.op \in {"translate_malloc", "translate_open"} =>
                 last'.ret # id
          /\ Target(last') = id =>
                 /\ Failed(last')
                 /\ UNCHANGED <<l1_cache, l2_cache, l3_cache, stats,
                                allocations, total_allocated, mstats,
                                ptr_to_key, key_to_ptr, next_fake_pointer,
                                dvars, fvars>>]_vars

\* a pointer and a descriptor were released, and the last call read through
\* the released descriptor
ReleasedWitness ==
    /\ \E id \in released : id >= FirstFakePointer
    /\ last.op = "translate_read_file"
    /\ last.fd \in released
    /\ last.ret = None

\* the buffer behind an active pointer: what a read of its block returns
BufferOf(h, pointer) == get(h, h.ptr_to_key[pointer].helix_key).ret

\* the bytes of buffer outside [offset, offset + length) are those of before
SameOutside(before, buffer, offset, length) ==
    /\ Len(buffer) >= Len(before)
    /\ \A i \in 1..Len(before) :
           (i <= offset \/ i > offset + length) => buffer[i] = before[i]

\* C14: for an active pointer, every offset >= 0 and every byte string b,
\* after translate_write(ptr, b, offset) returns true,
\* translate_read(ptr, len(b), offset) returns b and every byte of the
\* previous buffer outside [offset, offset + len(b)) is unchanged.
OffsetWriteThenRead ==
    [][(last'.op = "translate_write" /\ last'.ret = TRUE) =>
          /\ translate_read(Sys', last'.pointer, Len(last'.data),
                            last'.offset).ret = Some(last'.data)
          /\ BufferOf(Sys, last'.pointer) # None =>
                 SameOutside(BufferOf(Sys, last'.pointer)[1],
                             BufferOf(Sys', last'.pointer)[1],
                             last'.offset, Len(last'.data))]_vars

\* the allocator rejects a block of size zero bytes
Rejects(size) == total_allocated + PickleLen(Zeros(size)) > cfg.max_virtual

\* C15: translate_malloc returns 0 and creates no handle record, allocation
\* record or cache entry when the allocator rejects the request; every
\* successful call returns a non-zero pointer that exceeds the previously
\* issued pointer by exactly the stride (the first one is the base), so
\* pointers are strictly increasing over the whole run.
PointerIssue ==
    [][IF last'.op = "translate_malloc"
       THEN IF Rejects(last'.size)
            THEN /\ last'.ret = 0
                 /\ UNCHANGED <<l1_cache, l2_cache, l3_cache, allocations,
                                total_allocated, ptr_to_key, key_to_ptr,
                                next_fake_pointer>>
            ELSE /\ last'.ret # 0
                 /\ last'.ret = next_fake_pointer
                 /\ next_fake_pointer' = last'.ret + PointerStride
                 /\ \A pointer \in DOMAIN ptr_to_key : pointer < last'.ret
                 /\ DOMAIN ptr_to_key' = DOMAIN ptr_to_key \cup {last'.ret}
       ELSE UNCHANGED next_fake_pointer]_vars

\* a request was rejected after three pointers were issued
PointerIssueWitness ==
    /\ last.op = "translate_malloc"
    /\ last.ret = 0
    /\ next_fake_pointer = FirstFakePointer + 3 * PointerStride
    /\ Cardinality(DOMAIN ptr_to_key) >= 2

----------------------------------------------------------------------------
(* Properties of the file cache *)

\* C18: after write_file(path, b) returns, for either value of write_through
\* and whether the durable write succeeded or failed, the next
\* read_file(path) returns b.
CacheAuthoritative ==
    [][last'.op = "write_file" =>
          \A outcome \in OpenOutcomes :
              read_file(Sys', last'.filepath, outcome).ret = Some(last'.data)]_vars

\* C20: in every state reachable by malloc, free, write, read_file and
\* write_file calls, 0 <= total_allocated <= the virtual-memory budget.
GlobalCeiling == 0 <= total_allocated /\ total_allocated <= cfg.max_virtual

\* the budget is used up: the allocator has just rejected a block, after
\* the file cache stored a file
CeilingWitness ==
    /\ last.op = "malloc"
    /\ last.ret = FALSE
    /\ fstats.file_writes >= 1
    /\ total_allocated = cfg.max_virtual

----------------------------------------------------------------------------
(* Properties of the calls of several threads *)

\* FileCache lock, then Allocator lock, then Cache lock
LockRank(lock) == CASE lock = "fs" -> 1 [] lock = "alloc" -> 2 [] lock = "cache" -> 3

Held(t) == {lock \in LockNames : locks[lock].owner = t}

Busy(t) == threads[t].todo # <<>>

\* the lock thread t is about to take, "" when its next step takes none
Wanted(t) ==
    IF Busy(t) /\ Head(threads[t].todo)[1] = "acquire"
    THEN Head(threads[t].todo)[2] ELSE ""

\* a thread asks for a lock only while every lock it holds comes before it
\* in the order (or is that lock)
LockOrder ==
    \A t \in Threads :
        Wanted(t) # "" =>
            \A lock \in Held(t) : LockRank(lock) <= LockRank(Wanted(t))

\* while a call is under way some thread can take a step
NoDeadlock == (\E t \in Threads : Busy(t)) => \E t \in Threads : CanStep(t)

\* C16: in every interleaving of calls into the file cache, the allocator
\* and the cache a thread acquires locks only in the order FileCache lock,
\* Allocator lock, Cache lock, so no deadlocked state is reachable and every
\* call eventually returns.
DeadlockFreedom ==
    /\ []LockOrder
    /\ []NoDeadlock
    /\ \A t \in Threads : Busy(t) ~> ~Busy(t)

\* a thread holds the file cache lock and the allocator lock and waits for
\* the cache lock, which the other thread holds
LockWitness ==
    \E t, u \in Threads :
        /\ t # u
        /\ Held(t) = {"fs", "alloc"}
        /\ Wanted(t) = "cache"
        /\ Held(u) = {"cache"}

\* thread t is in the body of get or put: about to look at the tiers, or
\* with blocks in transit
InBody(t) == Busy(t) /\ Head(threads[t].todo)[1] \in {"cache", "arrive"}

Moving(t) == threads[t].transit # None

\* C17: every promotion, demotion and eviction cascade of get and put calls
\* of several threads happens while the cache mutex is held: no other
\* caller's get or put looks at the tiers while a block is in transit,
\* absent from the tier it left and from the tier it goes to.
AtomicMoves ==
    \A t, u \in Threads :
        (t # u /\ Moving(t)) =>
            /\ ~InBody(u)
            /\ locks["cache"].owner = t

\* the block a get promotes from Warm to Hot is in transit, with the block it
\* pushes out of Hot, while the other thread waits at the mutex for its get
MovesWitness ==
    \E t, u \in Threads :
        /\ t # u
        /\ Moving(t)
        /\ threads[t].transit[1].part.stats.promotions
               = stats.promotions + 1
        /\ l1_cache = <<>>
        /\ l2_cache = <<>>
        /\ Wanted(u) = "cache"


----------------------------------------------------------------------------
(* Properties of the tiers under blocks that fit every tier *)

EveryBlockFits ==
    \A i \in 1..3 : \A j \in 1..Len(Tiers[i]) :
        /\ Tiers[i][j].size_bytes <= cfg.l1_max
        /\ Tiers[i][j].size_bytes <= cfg.l2_max
        /\ Tiers[i][j].size_bytes <= cfg.l3_max

\* C21: when the size of every block is at most the capacity of each tier,
\* after every get and put the effective occupied size of each tier is at most
\* its capacity, also after a get that hits a compressed block in Compressed,
\* decompresses it and leaves it there.
FittingOccupancy ==
    (last.op \in {"malloc", "read"} /\ EveryBlockFits) =>
        /\ get_tier_size(l1_cache) <= cfg.l1_max
        /\ get_tier_size(l2_cache) <= cfg.l2_max
        /\ get_tier_size(l3_cache) <= cfg.l3_max

RECURSIVE SumOf(_, _)

\* the sum of f over the keys in S
SumOf(f, S) ==
    IF S = {} THEN 0
    ELSE LET key == CHOOSE k \in S : TRUE IN f[key] + SumOf(f, S \ {key})

\* C22: total_allocated is the sum of the sizes recorded in the allocation
\* table, also after a malloc of a key that is already allocated and after a
\* read_file that caches an evicted file again.
AccountingConsistency ==
    total_allocated = SumOf(allocations, DOMAIN allocations)

\* a write of an allocated key has returned false
WriteRejected ==
    /\ last'.op = "write"
    /\ last'.ret = FALSE
    /\ last'.key \in DOMAIN allocations

\* C23: a write on an allocated key that returns false (the budget rejects the
\* new payload) leaves the allocation record, total_allocated and the payload
\* as they were: a read of the key returns the data it returned before.
FailedWriteKeeps ==
    [][WriteRejected =>
           /\ allocations' = allocations
           /\ total_allocated' = total_allocated
           /\ read(Sys', last'.key).ret = read(Sys, last'.key).ret]_vars

----------------------------------------------------------------------------
(* Properties of the translator's pointers, continued *)

\* C24: for every pointer that translate_malloc returned and translate_free
\* has not released, translate_read returns bytes and never a miss, after any
\* sequence of calls, evictions from Compressed and rejected writes included.
ActivePointersReadable ==
    \A pointer \in DOMAIN ptr_to_key :
        translate_read(Sys, pointer, 1, 0).ret # None

----------------------------------------------------------------------------
(* Properties of gets and puts *)

\* the keys resident in some tier
ResidentKeys == {key \in UserKeys \cup TierKeys : Resident(key)}

\* C25: a get (a read) never changes the set of keys resident across the
\* tiers, promotions and the demotions they cause included.
ReadsKeepKeys ==
    [][last'.op = "read" => ResidentKeys' = ResidentKeys]_vars

\* the keys, other than the key of the call, that the call has taken out of
\* every tier
Destroyed == {key \in ResidentKeys : key # last'.key /\ ~Resident(key)'}

\* C26: a put or a get takes a key other than the one being put out of every
\* tier only by an eviction from Compressed: the evictions counter grows by
\* exactly the number of keys so removed (a demotion never drops its block).
OnlyEvictionDestroys ==
    [][last'.op \in {"malloc", "read"} =>
           stats'.evictions - stats.evictions = Cardinality(Destroyed)]_vars

\* what a get of the key returns in state h
PayloadIn(h, key) == read(h, key).ret

Payload(key) == PayloadIn(Sys, key)

\* the call has put data under its key
HasPut == last'.op \in {"malloc", "write"} /\ last'.ret = TRUE

CompressedHit == last'.op = "read" /\ last'.was = "L3_COMPRESSED"

\* the block in Compressed that the get has found
HitBlock == Lookup(l3_cache, last'.key)

\* the block is in Warm only, inflated, with the incremented count
MovedToWarm ==
    /\ HasKey(l2_cache', last'.key)
    /\ ~HasKey(l1_cache', last'.key)
    /\ ~HasKey(l3_cache', last'.key)
    /\ ~Lookup(l2_cache', last'.key).compressed
    /\ Lookup(l2_cache', last'.key).access_count = HitBlock.access_count + 1

\* the block is the most recently touched entry of Compressed, and nowhere else
TouchedInCompressed ==
    /\ l3_cache' # <<>>
    /\ l3_cache'[Len(l3_cache')].key = last'.key
    /\ l3_cache'[Len(l3_cache')].access_count = HitBlock.access_count + 1
    /\ ~HasKey(l1_cache', last'.key)
    /\ ~HasKey(l2_cache', last'.key)

\* C28: a get that hits in Compressed increments the block's access count and
\* returns the decompressed payload; if the count after the increment is
\* greater than 2 the block moves to Warm (inflated, resident in Warm only),
\* otherwise it stays in Compressed as its most recently touched entry.
CompressedPromotionBoundary ==
    [][CompressedHit =>
           /\ last'.ret = Some(decompress(HitBlock).data)
           /\ IF HitBlock.access_count + 1 > 2
              THEN MovedToWarm ELSE TouchedInCompressed]_vars

\* a get has hit a block in Compressed, its count has reached 3 and the block
\* has moved to Warm
CompressedPromotionWitness ==
    /\ last.op = "read"
    /\ last.was = "L3_COMPRESSED"
    /\ HasKey(l2_cache, last.key)
    /\ Lookup(l2_cache, last.key).access_count = 3
    /\ stats.promotions = 1

\* C29: after a put the new block is the most recently touched entry of Hot
\* (the last to be demoted), also when the key was already in Hot.
PutMakesMostRecent ==
    [][(last'.op = "malloc" /\ last'.ret = TRUE) =>
           /\ l1_cache' # <<>>
           /\ l1_cache'[Len(l1_cache')].key = last'.key]_vars

\* the get calls the counters of Hot have counted
GetsCounted == stats.l1_hits + stats.l1_misses

\* the get finds its key in no tier
FullMiss == last'.op = "read" /\ ~Resident(last'.key)

\* C30: l1_hits + l1_misses is the number of get calls (every get adds one,
\* no other call adds any), l2_hits + l2_misses = l1_misses and
\* l3_hits + l3_misses = l2_misses; a get that misses all three tiers
\* increments the three miss counters and returns a miss.
HitMissAccounting ==
    [][/\ GetsCounted' - GetsCounted = IF last'.op = "read" THEN 1 ELSE 0
       /\ stats'.l2_hits + stats'.l2_misses = stats'.l1_misses
       /\ stats'.l3_hits + stats'.l3_misses = stats'.l2_misses
       /\ FullMiss =>
              /\ stats'.l1_misses = stats.l1_misses + 1
              /\ stats'.l2_misses = stats.l2_misses + 1
              /\ stats'.l3_misses = stats.l3_misses + 1
              /\ last'.ret = None]_vars

\* a get has missed all three tiers after a hit in Hot and a hit in Warm
HitMissWitness ==
    /\ last.op = "read"
    /\ last.ret = None
    /\ stats.l3_misses = 1
    /\ stats.l2_hits = 1
    /\ stats.l1_hits = 1

----------------------------------------------------------------------------
(* Properties of the compression state *)

\* C31: in every reachable state a block flagged compressed has a compressed
\* payload, and only blocks resident in Compressed are flagged compressed: the
\* blocks in Hot and Warm are uncompressed.
CompressionState ==
    /\ \A i \in 1..3 : \A j \in 1..Len(Tiers[i]) :
           Tiers[i][j].compressed => Tiers[i][j].cdata # None
    /\ \A j \in 1..Len(l1_cache) : ~l1_cache[j].compressed
    /\ \A j \in 1..Len(l2_cache) : ~l2_cache[j].compressed

\* the only hit in Compressed so far has found a deflated block and has
\* moved it to Warm
CompressionWitness ==
    /\ last.op = "read"
    /\ last.was = "L3_COMPRESSED"
    /\ stats.l3_hits = 1
    /\ stats.promotions = 1
    /\ stats.compressions >= 1
    /\ HasKey(l2_cache, last.key)
    /\ Lookup(l2_cache, last.key).size_bytes = 35

----------------------------------------------------------------------------
(* Properties of free *)

\* the blocks of a tier that belong to other keys, in the tier's order
OthersIn(tier, key) == SelectSeq(tier, LAMBDA block : block.key # key)

\* the call is a free that has returned true
Freed == last'.op = "free" /\ last'.ret = TRUE

\* C32: a successful free(key) leaves the tier placement, payload and recency
\* order of every other key and its allocation record unchanged, and changes
\* total_allocated by the recorded size of the freed key only.
FreeIsLocal ==
    [][Freed =>
           /\ OthersIn(l1_cache', last'.key) = OthersIn(l1_cache, last'.key)
           /\ OthersIn(l2_cache', last'.key) = OthersIn(l2_cache, last'.key)
           /\ OthersIn(l3_cache', last'.key) = OthersIn(l3_cache, last'.key)
           /\ Without(allocations', last'.key) = Without(allocations, last'.key)
           /\ total_allocated' = total_allocated - allocations[last'.key]]_vars

\* a free has returned true while other keys are resident in Hot and in Warm
FreeIsLocalWitness ==
    /\ last.op = "free"
    /\ last.ret = TRUE
    /\ ~Resident(last.key)
    /\ l1_cache # <<>>
    /\ l2_cache # <<>>
    /\ Cardinality(DOMAIN allocations) = 2

----------------------------------------------------------------------------
(* Properties of free and read in two threads *)

\* thread t is between two calls
Idle(t) == threads[t].todo = <<>>

\* C33: when free(key) and read(key) run in two threads on an allocated key,
\* once free has returned true the key is resident in no tier: a promotion
\* under way in the read does not put it back.
FreedStaysOut ==
    (/\ Idle(1)
     /\ Idle(2)
     /\ threads[2].ret = Flag(TRUE)
     /\ RaceKey \notin DOMAIN allocations) => ~Resident(RaceKey)

----------------------------------------------------------------------------
(* Properties of the translator in two threads *)

\* thread t has got a pointer from its translate_malloc
GotPointer(t) ==
    Idle(t) /\ threads[t].ret.kind = "pointer" /\ threads[t].ret.ok

\* the pointer thread t has got
PointerOf(t) == threads[t].ret.bytes[1]

\* both threads have made one call, which has returned a pointer
BothGotPointers ==
    \A t \in Threads : GotPointer(t) /\ threads[t].calls = 1

\* C34: when two threads call translate_malloc at the same time, with equal
\* or different sizes, and both succeed, they get two different pointers that
\* map to two different cache keys, and each allocation is counted once in
\* total_allocated.
DistinctHandles ==
    BothGotPointers =>
        /\ PointerOf(1) # PointerOf(2)
        /\ PointerOf(1) \in DOMAIN ptr_to_key
        /\ PointerOf(2) \in DOMAIN ptr_to_key
        /\ ptr_to_key[PointerOf(1)].helix_key # ptr_to_key[PointerOf(2)].helix_key
        /\ total_allocated = SumOf(allocations, DOMAIN allocations)

\* thread t's write has returned true
Wrote(t) == Idle(t) /\ threads[t].ret = Flag(TRUE)

\* thread 1 has allocated the buffer and written X at offset 0, thread 2 has
\* written Y at offset 1, and both writes have returned true
BothWrote ==
    /\ Wrote(1)
    /\ Wrote(2)
    /\ threads[1].calls = 2
    /\ threads[2].calls = 1

\* C35: when two threads call translate_write on one active pointer with byte
\* ranges that do not overlap and both return true, the buffer read afterwards
\* holds both writes.
BothWritesKept ==
    BothWrote =>
        translate_read(Sys, FirstFakePointer, 2, 0).ret = Some(<<88, 89>>)

----------------------------------------------------------------------------
(* Properties of the file cache in two threads *)

\* thread t is inside read_file or write_file: it has entered with self.lock
\* and has not returned
InsideFs(t) ==
    /\ threads[t].todo # <<>>
    /\ Head(threads[t].todo) # <<"acquire", "fs">>

\* C36: no two threads are inside read_file / write_file of one HelixFS at the
\* same time, and when the calls of the two threads (write_file of p with X
\* and with Y, storage working, budget sufficient) have returned, the cached
\* value of p and the content of the file are the same.
FilesSerialized ==
    /\ \A t, u \in Threads : (InsideFs(t) /\ InsideFs(u)) => t = u
    /\ (Idle(1) /\ Idle(2) /\ "p" \in DOMAIN disk) =>
           PayloadIn(Sys, FileKey("p")) = Some(disk["p"])

\* both threads have written the file once, at the same time or one after
\* the other, and have returned; the file and the cache hold X
FilesWitness ==
    /\ Idle(1)
    /\ Idle(2)
    /\ threads[1].calls = 1
    /\ threads[2].calls = 1
    /\ fstats.file_writes = 2
    /\ fstats.disk_writes = 2
    /\ "p" \in DOMAIN disk
    /\ disk["p"] = <<88>>
    /\ PayloadIn(Sys, FileKey("p")) = Some(<<88>>)

----------------------------------------------------------------------------
(* Properties of translate_read *)

Min(a, b) == IF a < b THEN a ELSE b

\* the bytes of buffer at the positions lo .. hi - 1, counted from 0
Range(buffer, lo, hi) == [i \in 1..(hi - lo) |-> buffer[lo + i]]

\* the call is a translate_read of an active pointer whose buffer is in the
\* cache
ReadOfBuffer ==
    /\ last'.op = "translate_read"
    /\ last'.pointer \in DOMAIN ptr_to_key
    /\ Payload(ptr_to_key[last'.pointer].helix_key) # None

\* the buffer of the pointer of the call, before the call
ReadBuffer == Payload(ptr_to_key[last'.pointer].helix_key)[1]

\* C37: translate_read(ptr, size, offset) on an active pointer whose buffer has
\* length n returns exactly the bytes at the positions
\* [min(offset, n), min(offset + size, n)), a shorter or empty result and no
\* error when the range passes the end of the buffer, and it does not change
\* the buffer.
ReadTruncation ==
    [][ReadOfBuffer =>
           /\ last'.ret =
                  Some(Range(ReadBuffer,
                             Min(last'.offset, Len(ReadBuffer)),
                             Min(last'.offset + last'.size, Len(ReadBuffer))))
           /\ PayloadIn(Sys', last'.key) = Some(ReadBuffer)]_vars

\* a read of three bytes at offset 1 of the buffer XY has returned Y
ReadTruncationWitness ==
    /\ last.op = "translate_read"
    /\ last.offset = 1
    /\ last.size = 3
    /\ last.ret = Some(<<89>>)

----------------------------------------------------------------------------
(* Properties of the control system *)

\* C38: after emergency_stop() is_enabled() is false in every later state
\* until enable() is called: disable() and set_ai_mode() never clear the
\* emergency flag, enable() clears it and sets enabled, and is_enabled() is
\* true exactly when enabled is set and emergency_stop is not.
EmergencyLatches ==
    [][/\ last'.op = "emergency_stop" =>
              control'.state.emergency_stop /\ ~is_enabled(control')
       /\ (control.state.emergency_stop /\ last'.op # "enable") =>
              control'.state.emergency_stop /\ ~is_enabled(control')
       /\ last'.op = "enable" =>
              /\ ~control'.state.emergency_stop
              /\ control'.state.enabled
              /\ is_enabled(control')
       /\ last'.op = "is_enabled" =>
              /\ last'.ret = (control.state.enabled
                                  /\ ~control.state.emergency_stop)
              /\ control' = control]_vars

\* after an emergency stop, a disable and a set_ai_mode the flag is still
\* set and is_enabled() has answered false
EmergencyWitness ==
    /\ last.op = "is_enabled"
    /\ last.ret = FALSE
    /\ control.state.emergency_stop
    /\ control.state.last_command = "ai_mode_True"
    /\ now = 3
====
